---- MODULE Spec2Model ----
(***************************************************************************)
(* Variant composition of launchframe-dev/cli.                             *)
(*                                                                         *)
(* File contents are sequences of atoms.  An atom is a string: the newline *)
(* NL, an indentation run IND, a marker or placeholder token written       *)
(* exactly as the JavaScript builds it, or a run of ordinary text.         *)
(* String searches of the source (indexOf, includes, RegExp) become        *)
(* searches for atoms; marker and placeholder tokens never straddle atoms. *)
(* Paths are sequences of path components.                                 *)
(***************************************************************************)
EXTENDS Integers, Sequences, FiniteSets, TLC

VARIABLES
  \* --- policy functions called on their own (SpecPolicy) ---
  backendChoices,   \* argument of resolveVariantChoices / getVariantsToApply
  policyOut,        \* value returned by getVariantsToApply, or NotCalled
  resolveOut,       \* value returned by resolveVariantChoices, or NotCalled
  \* --- one processServiceVariant run (Spec) ---
  serviceName,      \* argument serviceName
  variantChoices,   \* argument variantChoices
  defects,          \* how the template tree under templateRoot departs from a complete one
  dest,             \* the destination directory: path -> content
  variantsToApply,  \* local const variantsToApply
  vi,               \* position of the for-loop over variantsToApply
  pc,               \* position inside processServiceVariant
  log,              \* console.log / console.warn calls made so far
  error,            \* the Error thrown out of processServiceVariant, or NoError
  \* --- the text functions called on one file (SpecSection, SpecCleanup, SpecSubst) ---
  filePath,         \* argument filePath
  fileContent,      \* what the file at filePath holds
  fileCall,         \* the last call made on the file: its arguments and its outcome
  fileCalls,        \* number of calls made on the file
  \* --- the services cache (SpecCache) ---
  gitDir,           \* TRUE when cacheDir/.git exists
  sparseList,       \* the sparse-checkout set of the cache repository
  cacheCall,        \* the last cache operation: its arguments and its outcome
  cacheCalls,       \* number of cache operations made
  \* --- two processes inside ensureCacheReady (SpecConcurrent) ---
  procs,            \* per process: position, requiredServices, currentServices, outcome
  gitLog,           \* the git commands run on the cache so far, in order
  \* --- init and generateProject (SpecProject), the manifest commands (SpecManifest) ---
  templateTree,     \* the paths that exist under templateRoot
  genChoices,       \* init's variantChoices
  required,         \* init's requiredServices
  genFault,         \* the service whose composition fails on an I/O error, if any
  genAt,            \* position inside init / generateProject
  psvCalls,         \* the processServiceVariant calls made so far: service and choices
  destinationRoot,  \* the entries of destinationRoot
  manifest,         \* what destinationRoot/.launchframe holds, or NoManifest
  manifestBefore,   \* what it held before the last command on it
  manifestOp,       \* the last manifest command
  manifestOps       \* number of manifest commands run

policyVars == <<backendChoices, policyOut, resolveOut>>

composeVars == <<serviceName, variantChoices, defects, dest, variantsToApply, vi, pc, log, error>>

textVars == <<filePath, fileContent, fileCall, fileCalls>>

cacheVars == <<gitDir, sparseList, cacheCall, cacheCalls, procs, gitLog>>

projectVars == <<templateTree, genChoices, required, genFault, genAt, psvCalls,
                 destinationRoot, manifest, manifestBefore, manifestOp, manifestOps>>

vars == <<backendChoices, policyOut, resolveOut,
          serviceName, variantChoices, defects, dest, variantsToApply, vi, pc, log, error,
          filePath, fileContent, fileCall, fileCalls,
          gitDir, sparseList, cacheCall, cacheCalls, procs, gitLog,
          templateTree, genChoices, required, genFault, genAt, psvCalls,
          destinationRoot, manifest, manifestBefore, manifestOp, manifestOps>>

----------------------------------------------------------------------------
(* Bounds *)

\* largest number of simultaneous departures from a complete template tree
MaxDefects == 1

----------------------------------------------------------------------------
(* JavaScript values *)

Undefined == "undefined"

\* the outcome of a call that has not been made, and of one that returned value
NotCalled == [called |-> FALSE, value |-> << >>]

Returned(value) == [called |-> TRUE, value |-> value]

NoError == "no-error"

\* !v for the values an axis can hold: undefined and '' are falsy
Falsy(v) == v \in {Undefined, ""}

\* obj[key], undefined when the property is absent
Get(obj, key) == IF key \in DOMAIN obj THEN obj[key] ELSE Undefined

\* obj with obj[key] = value assigned
Put(obj, key, value) == [k \in DOMAIN obj \cup {key} |-> IF k = key THEN value ELSE obj[k]]

EmptyObject == [k \in {} |-> Undefined]

RECURSIVE SeqToSet(_)
SeqToSet(s) == IF s = <<>> THEN {} ELSE {Head(s)} \cup SeqToSet(Tail(s))

Includes(s, x) == \E i \in 1..Len(s) : s[i] = x

\* Body applied to value: the value of a const or let binding, computed once
With(value, Body(_)) == CHOOSE result \in {Body(v) : v \in {value}} : TRUE

----------------------------------------------------------------------------
(* services/variant-config.js : the policy table.  Each variant keeps a    *)
(* representative subset of its files and sections entries, in source      *)
(* order; variant names, their order, and linkedTo are complete.           *)

UserEntity == <<"src", "modules", "users", "user.entity.ts">>

UsersModule == <<"src", "modules", "users", "users.module.ts">>

UserBusinessEntity == <<"src", "modules", "users", "user-business.entity.ts">>

AuthService == <<"src", "modules", "auth", "auth.service.ts">>

ProjectsDir == <<"src", "modules", "domain", "projects">>

ProjectsModule == <<"src", "modules", "domain", "projects", "projects.module.ts">>

ProjectsService == <<"src", "modules", "domain", "projects", "projects.service.ts">>

AppTsx == <<"src", "App.tsx">>

ProjectRequests == <<"src", "api", "projectRequests.ts">>

UsersPage == <<"src", "pages", "Users.tsx">>

BusinessPage == <<"src", "pages", "Business.tsx">>

TenantContext == <<"src", "api", "tenantContext.ts">>

ApiConfig == <<"src", "api", "config.ts">>

ComposeYml == <<"docker-compose.yml">>

ComposeDevYml == <<"docker-compose.dev.yml">>

BackendConfig ==
  [ base |-> "backend/base",
    sectionsDir |-> "backend/variants/sections",
    filesDir |-> "backend/variants/files",
    variantNames |-> <<"multi-tenant", "b2b2c", "b2b2c_single-tenant", "b2b2c_multi-tenant">>,
    variants |->
      ( "multi-tenant" :>
          [ files |-> <<ProjectsDir, AuthService>>,
            sections |-> << <<UserEntity, <<"PROJECTS_RELATIONSHIP_IMPORT", "PROJECTS_RELATIONSHIP">> >>,
                            <<UsersModule, <<"MULTI_TENANT_IMPORTS">> >> >> ]
        @@ "b2b2c" :>
          [ files |-> <<UserBusinessEntity>>,
            sections |-> << <<UserEntity, <<"B2B2C_IMPORTS">> >>,
                            <<UsersModule, <<"B2B2C_IMPORTS">> >> >> ]
        @@ "b2b2c_single-tenant" :>
          [ files |-> <<AuthService, UserBusinessEntity, UsersModule>>,
            sections |-> << <<UserEntity, <<"BUSINESS_RELATIONSHIP">> >> >> ]
        @@ "b2b2c_multi-tenant" :>
          [ files |-> <<UserBusinessEntity, AuthService, ProjectsModule>>,
            sections |-> << >> ] ),
    linkedTo |-> << >> ]

AdminPortalConfig ==
  [ base |-> "admin-portal/base",
    sectionsDir |-> "admin-portal/variants/sections",
    filesDir |-> "admin-portal/variants/files",
    variantNames |-> <<"multi-tenant", "b2b2c", "b2b2c_single-tenant">>,
    variants |->
      ( "multi-tenant" :>
          [ files |-> <<ProjectRequests>>,
            sections |-> << <<AppTsx, <<"USER_ROUTE_VARIABLES", "FIRST_PROJECT_ROUTE">> >> >> ]
        @@ "b2b2c" :>
          [ files |-> <<UsersPage>>,
            sections |-> << <<AppTsx, <<"B2B2C_USERS_ROUTE">> >> >> ]
        @@ "b2b2c_single-tenant" :>
          [ files |-> <<BusinessPage>>,
            sections |-> << <<AppTsx, <<"USER_ROUTE_VARIABLES", "BUSINESS_ROUTE">> >> >> ] ),
    linkedTo |-> <<"backend", "tenancy">> ]

CustomersPortalConfig ==
  [ base |-> "customers-portal/base",
    sectionsDir |-> "customers-portal/variants/sections",
    filesDir |-> "customers-portal/variants/files",
    variantNames |-> <<"single-tenant", "multi-tenant">>,
    variants |->
      ( "single-tenant" :>
          [ files |-> << >>,
            sections |-> << <<TenantContext, <<"TENANT_CONFIG">> >> >> ]
        @@ "multi-tenant" :>
          [ files |-> <<AppTsx, ApiConfig>>,
            sections |-> << >> ] ),
    linkedTo |-> <<"backend", "tenancy">> ]

InfrastructureConfig ==
  [ base |-> "infrastructure/base",
    sectionsDir |-> "infrastructure/variants/sections",
    filesDir |-> "infrastructure/variants/files",
    variantNames |-> <<"b2b2c">>,
    variants |->
      ( "b2b2c" :>
          [ files |-> << >>,
            sections |-> << <<ComposeYml, <<"B2B2C_CUSTOMERS_PORTAL_SERVICE">> >>,
                            <<ComposeDevYml, <<"B2B2C_CUSTOMERS_PORTAL_SERVICE",
                                               "B2B2C_CUSTOMERS_PORTAL_VOLUMES">> >> >> ] ),
    linkedTo |-> <<"backend", "userModel">> ]

\* Object.keys(VARIANT_CONFIG), in source order
ConfiguredServices == <<"backend", "admin-portal", "customers-portal", "infrastructure">>

VARIANT_CONFIG ==
  "backend" :> BackendConfig
  @@ "admin-portal" :> AdminPortalConfig
  @@ "customers-portal" :> CustomersPortalConfig
  @@ "infrastructure" :> InfrastructureConfig

\* VARIANT_CONFIG[serviceName] || null
Null == [null |-> TRUE]

getVariantConfig(name) == IF name \in DOMAIN VARIANT_CONFIG THEN VARIANT_CONFIG[name] ELSE Null

\* serviceConfig.variants[variantName] is not undefined
VariantDefined(cfg, v) == v \in DOMAIN cfg.variants

getVariantsToApply_Reordered(choices) ==
  LET isMultiTenant == Get(choices, "tenancy") = "multi-tenant"
      isSingleTenant == Get(choices, "tenancy") = "single-tenant"
      isB2B2C == Get(choices, "userModel") = "b2b2c"
      isB2B == Get(choices, "userModel") = "b2b"
  IN  IF isMultiTenant /\ isB2B2C THEN <<"b2b2c_multi-tenant", "multi-tenant", "b2b2c">>
      ELSE IF isSingleTenant /\ isB2B2C THEN <<"b2b2c_single-tenant", "b2b2c">>
      ELSE IF isMultiTenant /\ (isB2B \/ Falsy(Get(choices, "userModel"))) THEN <<"multi-tenant">>
      ELSE IF isSingleTenant /\ Falsy(Get(choices, "userModel")) THEN <<"single-tenant">>
      ELSE << >>

getVariantsToApply(choices) ==
  LET isMultiTenant == Get(choices, "tenancy") = "multi-tenant"
      isSingleTenant == Get(choices, "tenancy") = "single-tenant"
      isB2B2C == Get(choices, "userModel") = "b2b2c"
      isB2B == Get(choices, "userModel") = "b2b"
  IN  IF isMultiTenant /\ isB2B2C THEN <<"multi-tenant", "b2b2c", "b2b2c_multi-tenant">>
      ELSE IF isSingleTenant /\ isB2B2C THEN <<"b2b2c", "b2b2c_single-tenant">>
      ELSE IF isMultiTenant /\ (isB2B \/ Falsy(Get(choices, "userModel"))) THEN <<"multi-tenant">>
      ELSE IF isSingleTenant /\ Falsy(Get(choices, "userModel")) THEN <<"single-tenant">>
      ELSE << >>

\* the forEach over the linked services: choices[serviceName] = { [linkedDimension]: ... }
RECURSIVE ResolveLinked(_, _, _)
ResolveLinked(services, bc, choices) ==
  IF services = << >> THEN choices
  ELSE LET name == Head(services)
           cfg == VARIANT_CONFIG[name]
       IN  IF name = "backend" \/ cfg.linkedTo = << >>
           THEN ResolveLinked(Tail(services), bc, choices)
           ELSE ResolveLinked(Tail(services), bc,
                  Put(choices, name, Put(EmptyObject, cfg.linkedTo[2], Get(bc, cfg.linkedTo[2]))))

resolveVariantChoices_SingleAxis(bc) ==
  ResolveLinked(ConfiguredServices, bc, Put(EmptyObject, "backend", bc))

resolveVariantChoices(bc) ==
  LET linked == ResolveLinked(ConfiguredServices, bc, Put(EmptyObject, "backend", bc))
      withAdmin == IF "admin-portal" \in DOMAIN linked
                   THEN Put(linked, "admin-portal",
                            Put(linked["admin-portal"], "userModel", Get(bc, "userModel")))
                   ELSE linked
  IN  IF "infrastructure" \in DOMAIN withAdmin
      THEN Put(withAdmin, "infrastructure",
               Put(withAdmin["infrastructure"], "tenancy", Get(bc, "tenancy")))
      ELSE withAdmin

----------------------------------------------------------------------------
(* Atoms of file contents *)

NL == "\n"

IND == "  "

DOLLAR == "$"

AMP == "&"

ProjectNameToken == "{{PROJECT_NAME}}"

\* the replacements argument: placeholder -> value, as generateProject builds it
Replacements == << <<ProjectNameToken, <<"acme">> >> >>

\* comment styles in the order replaceSection tries them
Styles == <<"slash", "jsx", "hash">>

StartMarker(style, name) ==
  CASE style = "slash" -> "// " \o name \o "_START"
    [] style = "jsx" -> "{/* " \o name \o "_START */}"
    [] style = "hash" -> "# " \o name \o "_START"

EndMarker(style, name) ==
  CASE style = "slash" -> "// " \o name \o "_END"
    [] style = "jsx" -> "{/* " \o name \o "_END */}"
    [] style = "hash" -> "# " \o name \o "_END"

\* the least position of a set of positions, 0 for the empty set
Leftmost(positions) ==
  With(positions, LAMBDA P : IF P = {} THEN 0 ELSE CHOOSE i \in P : \A h \in P : i <= h)

\* the greatest position of a set of positions, 0 for the empty set
Rightmost(positions) ==
  With(positions, LAMBDA P : IF P = {} THEN 0 ELSE CHOOSE i \in P : \A h \in P : h <= i)

\* content.indexOf(atom): 1-based position of the first occurrence, 0 when absent
IndexOf(content, atom) == Leftmost({i \in 1..Len(content) : content[i] = atom})

\* content.indexOf(atom, from): first occurrence at a position >= from, 0 when absent
IndexOfFrom(content, atom, from) == Leftmost({i \in from..Len(content) : content[i] = atom})

\* content.lastIndexOf(atom, upto): last occurrence at a position <= upto, 0 when absent
LastIndexOfUpTo(content, atom, upto) ==
  Rightmost({i \in 1..upto : i <= Len(content) /\ content[i] = atom})

\* path.basename
Basename(path) == path[Len(path)]

\* true when path is prefix itself or lies inside the directory prefix
PathUnder(path, prefix) ==
  Len(prefix) <= Len(path) /\ SubSeq(path, 1, Len(prefix)) = prefix

\* f overwritten by g wherever g is defined (fs.copy with overwrite)
Overwrite(f, g) == [p \in DOMAIN f \cup DOMAIN g |-> IF p \in DOMAIN g THEN g[p] ELSE f[p]]

EmptyTree == [p \in {} |-> << >>]

----------------------------------------------------------------------------
(* utils/section-replacer.js *)

\* what one replaceSection call does: it throws, or it writes content to the file
Threw == [thrown |-> TRUE, content |-> << >>]

Wrote(content) == [thrown |-> FALSE, content |-> content]

\* the markers are missing and the call returns without touching the file
replaceSection_SilentOnMissing(content, sectionName, newContent) ==
  LET complete == {i \in 1..Len(Styles) :
                      /\ IndexOf(content, StartMarker(Styles[i], sectionName)) # 0
                      /\ IndexOf(content, EndMarker(Styles[i], sectionName)) # 0}
  IN  IF complete = {}
      THEN Wrote(content)
      ELSE LET style == Styles[Leftmost(complete)]
               startIndex == IndexOf(content, StartMarker(style, sectionName))
               endIndex == IndexOf(content, EndMarker(style, sectionName))
               lineStart == LastIndexOfUpTo(content, NL, startIndex - 1)
               endLineEnd == IndexOfFrom(content, NL, endIndex)
           IN  Wrote(SubSeq(content, 1, lineStart) \o newContent
                     \o SubSeq(content, endLineEnd + 1, Len(content)))

\* the hash style is tried before the JSX style
replaceSection_HashBeforeJSX(content, sectionName, newContent) ==
  LET complete == {i \in 1..Len(Styles) :
                      /\ IndexOf(content, StartMarker(Styles[i], sectionName)) # 0
                      /\ IndexOf(content, EndMarker(Styles[i], sectionName)) # 0}
  IN  IF complete = {}
      THEN Threw
      ELSE LET style == IF 1 \in complete THEN "slash"
                        ELSE IF 3 \in complete THEN "hash" ELSE "jsx"
               startIndex == IndexOf(content, StartMarker(style, sectionName))
               endIndex == IndexOf(content, EndMarker(style, sectionName))
               lineStart == LastIndexOfUpTo(content, NL, startIndex - 1)
               endLineEnd == IndexOfFrom(content, NL, endIndex)
           IN  Wrote(SubSeq(content, 1, lineStart) \o newContent
                     \o SubSeq(content, endLineEnd + 1, Len(content)))

replaceSection(content, sectionName, newContent) ==
  LET startSlash == IndexOf(content, StartMarker("slash", sectionName))
      endSlash == IndexOf(content, EndMarker("slash", sectionName))
      trySlash == startSlash = 0 \/ endSlash = 0
      startJSX == IF trySlash THEN IndexOf(content, StartMarker("jsx", sectionName)) ELSE startSlash
      endJSX == IF trySlash THEN IndexOf(content, EndMarker("jsx", sectionName)) ELSE endSlash
      tryJSX == startJSX = 0 \/ endJSX = 0
      startIndex == IF tryJSX THEN IndexOf(content, StartMarker("hash", sectionName)) ELSE startJSX
      endIndex == IF tryJSX THEN IndexOf(content, EndMarker("hash", sectionName)) ELSE endJSX
  IN  IF startIndex = 0 \/ endIndex = 0
      THEN Threw
      ELSE LET \* position of the newline before the START marker's line, 0 on the first line
               lineStart == LastIndexOfUpTo(content, NL, startIndex - 1)
               \* position of the newline ending the END marker's line, 0 when there is none
               endLineEnd == IndexOfFrom(content, NL, endIndex)
               before == SubSeq(content, 1, lineStart)
               after == SubSeq(content, endLineEnd + 1, Len(content))
           IN  Wrote(before \o newContent \o after)

hasSection_AnyMarker(content, sectionName) ==
  \E i \in 1..Len(Styles) :
     \/ IndexOf(content, StartMarker(Styles[i], sectionName)) # 0
     \/ IndexOf(content, EndMarker(Styles[i], sectionName)) # 0

\* lines 134-153
hasSection(content, sectionName) ==
  \E i \in 1..Len(Styles) :
     /\ IndexOf(content, StartMarker(Styles[i], sectionName)) # 0
     /\ IndexOf(content, EndMarker(Styles[i], sectionName)) # 0

----------------------------------------------------------------------------
(* utils/variant-processor.js : the marker-stripping regular expressions   *)
(*   ^[ \t]*<START>\n([\s\S]*?)^[ \t]*<END>\n?     with flags g and m      *)

\* ^ under the m flag
AtLineStart(content, i) == i = 1 \/ content[i - 1] = NL

\* first position at or after i that does not hold an indentation atom
RECURSIVE SkipIndent(_, _)
SkipIndent(content, i) ==
  IF i <= Len(content) /\ content[i] = IND THEN SkipIndent(content, i + 1) ELSE i

\* ^[ \t]*<marker> matches at i: the position of the marker, else 0
MarkerLineAt(content, i, marker) ==
  LET k == SkipIndent(content, i)
  IN  IF AtLineStart(content, i) /\ k <= Len(content) /\ content[k] = marker THEN k ELSE 0

\* the lazy group: the first line start at or after from where the END marker line matches, else 0
FirstEndLine(content, from, marker) ==
  Leftmost({j \in from..Len(content) : MarkerLineAt(content, j, marker) # 0})

NoMatch == [from |-> 0, to |-> 0, last |-> 0]

\* the whole pattern matched at i: [from |-> first captured position, to |-> last captured
\* position, last |-> last matched position], else last = 0
PatternAt(content, i, style, name) ==
  With(MarkerLineAt(content, i, StartMarker(style, name)), LAMBDA s :
    IF s = 0 \/ s + 1 > Len(content) \/ content[s + 1] # NL
    THEN NoMatch
    ELSE With(FirstEndLine(content, s + 2, EndMarker(style, name)), LAMBDA j :
           IF j = 0
           THEN NoMatch
           ELSE With(MarkerLineAt(content, j, EndMarker(style, name)), LAMBDA e :
                  [from |-> s + 2, to |-> j - 1,
                   last |-> IF e + 1 <= Len(content) /\ content[e + 1] = NL THEN e + 1 ELSE e])))

\* the leftmost position at or after pos where the pattern matches, else 0
NextMatch(content, pos, style, name) ==
  Leftmost({i \in pos..Len(content) : PatternAt(content, i, style, name).last # 0})

\* the match is replaced by nothing: the enclosed content goes with the markers
RECURSIVE ReplaceFrom_DropGroup(_, _, _, _)
ReplaceFrom_DropGroup(content, pos, style, name) ==
  With(NextMatch(content, pos, style, name),
       LAMBDA i : IF i = 0
                  THEN SubSeq(content, pos, Len(content))
                  ELSE With(PatternAt(content, i, style, name),
                            LAMBDA m : SubSeq(content, pos, i - 1)
                                       \o ReplaceFrom_DropGroup(content, m.last + 1, style, name)))

\* without the g flag: the first match only is replaced by its captured group
ReplaceFrom_FirstOnly(content, pos, style, name) ==
  With(NextMatch(content, pos, style, name),
       LAMBDA i : IF i = 0
                  THEN SubSeq(content, pos, Len(content))
                  ELSE With(PatternAt(content, i, style, name),
                            LAMBDA m : SubSeq(content, pos, i - 1) \o SubSeq(content, m.from, m.to)
                                       \o SubSeq(content, m.last + 1, Len(content))))

\* content.replace(pattern, '$1') scanning from pos: every match, left to right, is
\* replaced by its captured group; the scan resumes behind the match
RECURSIVE ReplaceFrom(_, _, _, _)
ReplaceFrom(content, pos, style, name) ==
  With(NextMatch(content, pos, style, name),
       LAMBDA i : IF i = 0
                  THEN SubSeq(content, pos, Len(content))
                  ELSE With(PatternAt(content, i, style, name),
                            LAMBDA m : SubSeq(content, pos, i - 1) \o SubSeq(content, m.from, m.to)
                                       \o ReplaceFrom(content, m.last + 1, style, name)))

StripMarkers_SlashOnly(content, name) ==
  ReplaceFrom(content, 1, "slash", name)

\* the three replace calls made for one section name
StripMarkers(content, name) ==
  With(ReplaceFrom(content, 1, "slash", name), LAMBDA afterSlash :
    With(ReplaceFrom(afterSlash, 1, "jsx", name), LAMBDA afterJsx :
      ReplaceFrom(afterJsx, 1, "hash", name)))

\* the loop over the section names ends at the first name whose markers were stripped
RECURSIVE StripAll_StopAfterFirst(_, _)
StripAll_StopAfterFirst(content, names) ==
  IF names = << >> THEN content
  ELSE With(StripMarkers(content, Head(names)), LAMBDA stripped :
         IF stripped # content THEN stripped ELSE StripAll_StopAfterFirst(content, Tail(names)))

RECURSIVE StripAll(_, _)
StripAll(content, names) ==
  IF names = << >> THEN content
  ELSE With(StripMarkers(content, Head(names)), LAMBDA stripped : StripAll(stripped, Tail(names)))

----------------------------------------------------------------------------
(* utils/variable-replacer.js *)

EXCLUDED_DIRS == {"node_modules", ".git", ".next", "dist", "build"}

BINARY_EXTENSIONS == {".png", ".jpg", ".jpeg", ".gif", ".ico", ".pdf", ".woff", ".woff2", ".ttf", ".eot"}

\* path.extname(f).toLowerCase() for the file names the template trees hold
ExtName(name) ==
  CASE name \in {"logo.png"} -> ".png"
    [] name \in {"App.tsx", "Users.tsx", "Business.tsx"} -> ".tsx"
    [] name \in {"docker-compose.yml", "docker-compose.dev.yml"} -> ".yml"
    [] name \in {"package.json"} -> ".json"
    [] name \in {"index.js"} -> ".js"
    [] name \in {"notes.txt"} -> ".txt"
    [] name \in {".env"} -> ""
    [] OTHER -> ".ts"

\* the replacement that String.prototype.replace builds from the string value for one
\* match: $$ stands for a dollar sign, $& for the matched text, any other text for itself
RECURSIVE GetSubstitution(_, _)
GetSubstitution(value, matched) ==
  IF value = << >> THEN << >>
  ELSE IF Len(value) >= 2 /\ value[1] = DOLLAR /\ value[2] = DOLLAR
       THEN <<DOLLAR>> \o GetSubstitution(SubSeq(value, 3, Len(value)), matched)
       ELSE IF Len(value) >= 2 /\ value[1] = DOLLAR /\ value[2] = AMP
            THEN <<matched>> \o GetSubstitution(SubSeq(value, 3, Len(value)), matched)
            ELSE <<value[1]>> \o GetSubstitution(Tail(value), matched)

\* content.replace(/(?<!\$)placeholder/g, value)
RECURSIVE ReplaceToken(_, _, _, _)
ReplaceToken(content, i, placeholder, value) ==
  IF i > Len(content) THEN << >>
  ELSE (IF content[i] = placeholder /\ (i = 1 \/ content[i - 1] # DOLLAR)
        THEN GetSubstitution(value, placeholder) ELSE <<content[i]>>)
       \o ReplaceToken(content, i + 1, placeholder, value)

RECURSIVE replaceVariablesInFile(_, _)
replaceVariablesInFile(content, variables) ==
  IF variables = << >> THEN content
  ELSE With(ReplaceToken(content, 1, Head(variables)[1], Head(variables)[2]),
            LAMBDA replaced : replaceVariablesInFile(replaced, Tail(variables)))

\* the files replaceVariables hands to replaceVariablesInFile
Substituted(path) ==
  /\ \A i \in 1..Len(path) : path[i] \notin EXCLUDED_DIRS
  /\ ExtName(Basename(path)) \notin BINARY_EXTENSIONS

replaceVariables(tree, variables) ==
  [p \in DOMAIN tree |->
     IF Substituted(p) THEN replaceVariablesInFile(tree[p], variables) ELSE tree[p]]

----------------------------------------------------------------------------
(* The template tree under templateRoot.  A complete tree holds, for every *)
(* service: the base files, with one marker pair per section the policy    *)
(* lists for the file; every entry of every variant's files list; every    *)
(* section-content file.  A defect removes or damages one of these.        *)

NoPath == << >>

Defect(kind, variant, path, section) ==
  [kind |-> kind, variant |-> variant, path |-> path, section |-> section]

\* the entries of a sections map that name the file: the section names, in order
RECURSIVE SectionNamesIn(_, _)
SectionNamesIn(sections, file) ==
  IF sections = << >> THEN << >>
  ELSE (IF Head(sections)[1] = file THEN Head(sections)[2] ELSE << >>)
       \o SectionNamesIn(Tail(sections), file)

\* s without the elements that occurred earlier in it
Dedup(s) ==
  With(s, LAMBDA q :
    With({i \in 1..Len(q) : \A j \in 1..(i - 1) : q[j] # q[i]}, LAMBDA first :
      [k \in 1..Cardinality(first) |->
         q[CHOOSE i \in first : Cardinality({j \in first : j <= i}) = k]]))

RECURSIVE SectionNamesOfVariants(_, _, _)
SectionNamesOfVariants(cfg, names, file) ==
  IF names = << >> THEN << >>
  ELSE SectionNamesIn(cfg.variants[Head(names)].sections, file)
       \o SectionNamesOfVariants(cfg, Tail(names), file)

\* the section names some variant of the service lists for the file
AllSectionNames(cfg, file) == Dedup(SectionNamesOfVariants(cfg, cfg.variantNames, file))

\* the files some variant of the service injects into
TargetFiles(cfg) ==
  UNION { {cfg.variants[v].sections[i][1] : i \in 1..Len(cfg.variants[v].sections)} :
          v \in DOMAIN cfg.variants }

StyleOf(file) ==
  CASE ExtName(Basename(file)) = ".tsx" -> "jsx"
    [] ExtName(Basename(file)) = ".yml" -> "hash"
    [] OTHER -> "slash"


\* one marker pair of a base file with the content it encloses
PairAtoms(file, name, indented, D) ==
  LET ind == IF indented THEN <<IND>> ELSE << >>
      noPair == Defect("noPair", "-", file, name) \in D
      noEnd == Defect("noEnd", "-", file, name) \in D
  IN  (IF noPair THEN << >> ELSE ind \o <<StartMarker(StyleOf(file), name), NL>>)
      \o ind \o <<"base " \o name, NL>>
      \o (IF noPair \/ noEnd THEN << >> ELSE ind \o <<EndMarker(StyleOf(file), name), NL>>)

RECURSIVE PairsFrom(_, _, _, _)
PairsFrom(file, names, n, D) ==
  IF n > Len(names) THEN << >>
  ELSE PairAtoms(file, names[n], n > 1, D) \o PairsFrom(file, names, n + 1, D)

\* a file written with every marker the policy lists for it
MarkedContent(cfg, file, origin, D) ==
  With(<<origin \o " " \o Basename(file), NL, ProjectNameToken, NL>>
       \o With(AllSectionNames(cfg, file), LAMBDA names : PairsFrom(file, names, 1, D)),
       LAMBDA body : IF Defect("eofEnd", "-", file, "-") \in D
                     THEN SubSeq(body, 1, Len(body) - 1)
                     ELSE body \o <<"tail", NL>>)

\* a file without markers
PlainContent(file, origin) ==
  <<origin \o " " \o Basename(file), NL, ProjectNameToken, NL, DOLLAR, ProjectNameToken, NL>>

\* base files that are not injection targets
CommonBaseFiles ==
  { <<"package.json">>, <<".env">>, <<"node_modules", "dep", "index.js">>,
    <<"public", "logo.png">>, <<"build", "notes.txt">> }

\* base files a variant's files list replaces
ReplacedBaseFiles(service) ==
  CASE service = "backend" -> {AuthService}
    [] service = "customers-portal" -> {AppTsx, ApiConfig}
    [] OTHER -> {}

BaseExists(D) == Defect("noBase", "-", NoPath, "-") \notin D

\* templateRoot/<base>
BaseTree(service, cfg, D) ==
  LET targets == {f \in TargetFiles(cfg) : Defect("targetMissing", "-", f, "-") \notin D}
  IN  [p \in targets \cup ReplacedBaseFiles(service) \cup CommonBaseFiles |->
         IF p \in targets THEN MarkedContent(cfg, p, "base", D) ELSE PlainContent(p, "base")]

\* the files below one entry of a files list
EntryLeaves(entry) ==
  IF entry = ProjectsDir THEN {ProjectsModule, ProjectsService} ELSE {entry}

\* templateRoot/<filesDir>/<variantName>
VariantFilesTree(cfg, v, D) ==
  LET entries == cfg.variants[v].files
      present == {i \in 1..Len(entries) : Defect("srcMissing", v, entries[i], "-") \notin D}
  IN  [p \in UNION {EntryLeaves(entries[i]) : i \in present} |->
         IF Defect("fileHasMarkers", v, p, "-") \in D
         THEN MarkedContent(cfg, p, v, {})
         ELSE PlainContent(p, v)]

\* fs.pathExists(templateRoot/<sectionsDir>/<variantName>/<sectionFileName>)
SectionFileExists(v, sectionFileName, D) ==
  ~ \E d \in D : /\ d.kind = "secMissing"
                 /\ d.variant = v
                 /\ Basename(d.path) \o "." \o d.section = sectionFileName

\* the content of a section-content file
SectionFileContent(v, sectionFileName) ==
  <<"section " \o v \o " " \o sectionFileName, NL, ProjectNameToken, NL>>

\* every departure the template tree of a service can show
Defects(cfg) ==
  {Defect("noBase", "-", NoPath, "-")}
  \cup UNION { {Defect("srcMissing", v, cfg.variants[v].files[i], "-") :
                  i \in 1..Len(cfg.variants[v].files)} : v \in DOMAIN cfg.variants }
  \cup UNION { UNION { {Defect("secMissing", v, cfg.variants[v].sections[i][1],
                                cfg.variants[v].sections[i][2][n]) :
                          n \in 1..Len(cfg.variants[v].sections[i][2])} :
                       i \in 1..Len(cfg.variants[v].sections) } : v \in DOMAIN cfg.variants }
  \cup {Defect("targetMissing", "-", f, "-") : f \in TargetFiles(cfg)}
  \cup {Defect("eofEnd", "-", f, "-") : f \in TargetFiles(cfg)}
  \cup UNION { {Defect(k, "-", f, AllSectionNames(cfg, f)[n]) :
                  n \in 1..Len(AllSectionNames(cfg, f)), k \in {"noEnd", "noPair"}} :
               f \in TargetFiles(cfg) }
  \cup UNION { {Defect("fileHasMarkers", v, f, "-") :
                  f \in TargetFiles(cfg) \cap SeqToSet(cfg.variants[v].files)} :
               v \in DOMAIN cfg.variants }

\* the subsets of S with at most n elements
RECURSIVE SubsetsUpTo(_, _)
SubsetsUpTo(S, n) ==
  IF n = 0 THEN {{}}
  ELSE LET smaller == SubsetsUpTo(S, n - 1)
       IN  smaller \cup {T \cup {x} : T \in smaller, x \in S}

DefectsOf(service) ==
  IF service \in DOMAIN VARIANT_CONFIG THEN Defects(VARIANT_CONFIG[service]) ELSE {}

----------------------------------------------------------------------------
(* utils/file-ops.js and utils/variant-processor.js : the steps of         *)
(* processServiceVariant.  A step works on st = [tree, log, thrown]: the   *)
(* destination tree, the console output, and whether the step threw.       *)

Event(ev, variant, path, section) ==
  [ev |-> ev, variant |-> variant, path |-> path, section |-> section]

Logged(st, ev, variant, path, section) ==
  [st EXCEPT !.log = Append(st.log, Event(ev, variant, path, section))]

\* the exclude option processServiceVariant passes to copyDirectory
BaseExclude == {"node_modules", ".git", "dist", ".env"}

\* copyDirectory(source, destination, { exclude }) for an existing source
copyDirectory(source, destination, exclude) ==
  LET kept == {p \in DOMAIN source : \A i \in 1..Len(p) : p[i] \notin exclude}
  IN  Overwrite(destination, [p \in kept |-> source[p]])

CopyEntry_KeepExisting(v, entry, src, st) ==
  LET leaves == {p \in DOMAIN src : PathUnder(p, entry)}
  IN  IF leaves = {}
      THEN Logged(st, "source-not-found", v, entry, "-")
      ELSE Logged([st EXCEPT !.tree = Overwrite([p \in leaves |-> src[p]], st.tree)],
                  "copied", v, entry, "-")

\* one iteration of the loop of copyVariantFiles
CopyEntry(v, entry, src, st) ==
  LET leaves == {p \in DOMAIN src : PathUnder(p, entry)}
  IN  IF leaves = {}
      THEN Logged(st, "source-not-found", v, entry, "-")
      ELSE Logged([st EXCEPT !.tree = Overwrite(st.tree, [p \in leaves |-> src[p]])],
                  "copied", v, entry, "-")

RECURSIVE CopyEntries(_, _, _, _)
CopyEntries(v, files, src, st) ==
  IF files = << >> \/ st.thrown THEN st
  ELSE With(CopyEntry(v, Head(files), src, st), LAMBDA next : CopyEntries(v, Tail(files), src, next))

copyVariantFiles(v, files, src, st) ==
  IF files = << >>
  THEN Logged(st, "no-files", v, NoPath, "-")
  ELSE CopyEntries(v, files, src, st)

InsertSection_ThrowOnMissing(v, file, sectionName, D, st) ==
  LET sectionFileName == Basename(file) \o "." \o sectionName
  IN  IF ~ SectionFileExists(v, sectionFileName, D)
      THEN [st EXCEPT !.thrown = TRUE]
      ELSE With(replaceSection(st.tree[file], sectionName, SectionFileContent(v, sectionFileName)),
                LAMBDA r : IF r.thrown
                           THEN Logged(st, "could-not-insert", v, file, sectionName)
                           ELSE Logged([st EXCEPT !.tree[file] = r.content],
                                       "inserted", v, file, sectionName))

\* one iteration of the inner loop of insertVariantSections (the try block and its catch)
InsertSection(v, file, sectionName, D, st) ==
  LET sectionFileName == Basename(file) \o "." \o sectionName
  IN  IF ~ SectionFileExists(v, sectionFileName, D)
      THEN Logged(st, "section-file-not-found", v, file, sectionName)
      ELSE With(replaceSection(st.tree[file], sectionName, SectionFileContent(v, sectionFileName)),
                LAMBDA r : IF r.thrown
                           THEN Logged(st, "could-not-insert", v, file, sectionName)
                           ELSE Logged([st EXCEPT !.tree[file] = r.content],
                                       "inserted", v, file, sectionName))

RECURSIVE InsertSections(_, _, _, _, _)
InsertSections(v, file, names, D, st) ==
  IF names = << >> \/ st.thrown THEN st
  ELSE With(InsertSection(v, file, Head(names), D, st),
            LAMBDA next : InsertSections(v, file, Tail(names), D, next))

RECURSIVE InsertEntries(_, _, _, _)
InsertEntries(v, sections, D, st) ==
  IF sections = << >> \/ st.thrown THEN st
  ELSE LET file == Head(sections)[1]
           names == Head(sections)[2]
       IN  With(IF file \notin DOMAIN st.tree
                THEN Logged(st, "target-not-found", v, file, "-")
                ELSE InsertSections(v, file, names, D, st),
                LAMBDA next : InsertEntries(v, Tail(sections), D, next))

insertVariantSections(v, sections, D, st) ==
  IF sections = << >>
  THEN Logged(st, "no-sections", v, NoPath, "-")
  ELSE InsertEntries(v, sections, D, st)

\* allVariants.filter(v => !appliedVariants.includes(v))
RECURSIVE Unapplied(_, _)
Unapplied(allVariants, appliedVariants) ==
  IF allVariants = << >> THEN << >>
  ELSE (IF Includes(appliedVariants, Head(allVariants)) THEN << >> ELSE <<Head(allVariants)>>)
       \o Unapplied(Tail(allVariants), appliedVariants)

\* sectionsToRemove.get(file), in insertion order
SectionsToRemove(cfg, unappliedVariants, file) ==
  Dedup(SectionNamesOfVariants(cfg, unappliedVariants, file))

cleanupSectionMarkers(cfg, appliedVariants, st) ==
  LET unappliedVariants == Unapplied(cfg.variantNames, appliedVariants)
  IN  IF unappliedVariants = << >>
      THEN Logged(st, "nothing-to-clean", "-", NoPath, "-")
      ELSE Logged([st EXCEPT !.tree =
                     [p \in DOMAIN st.tree |->
                        With(SectionsToRemove(cfg, unappliedVariants, p),
                             LAMBDA names : With(st.tree[p], LAMBDA content : StripAll(content, names)))]],
                  "cleaned", "-", NoPath, "-")

----------------------------------------------------------------------------
(* processServiceVariant as a sequence of steps *)

StepAfter_SubstituteFirst(step) ==
  CASE step = "config" -> "base"
    [] step = "base" -> "subst"
    [] step = "subst" -> "resolve"
    [] step = "loop" -> "cleanup"
    [] step = "cleanup" -> "done"

\* the statement order of processServiceVariant
StepAfter(step) ==
  CASE step = "config" -> "base"
    [] step = "base" -> "resolve"
    [] step = "loop" -> "cleanup"
    [] step = "cleanup" -> "subst"
    [] step = "subst" -> "done"

\* the for-loop over variantsToApply: another iteration, or the statement after the loop
LoopOrAfter(list, i) == IF i <= Len(list) THEN "loop" ELSE StepAfter("loop")

Config == getVariantConfig(serviceName)

CurrentVariant == variantsToApply[vi]

State == [tree |-> dest, log |-> log, thrown |-> FALSE]

Throw(message) ==
  /\ pc' = "failed"
  /\ error' = message

\* lines 35-40: look the service up, throw when it has no policy
GetConfigStep ==
  /\ pc = "config"
  /\ log' = Append(log, Event("processing", "-", NoPath, "-"))
  /\ IF Config = Null
     THEN Throw("No variant configuration found for service")
     ELSE pc' = StepAfter("config") /\ error' = error
  /\ UNCHANGED <<serviceName, variantChoices, defects, dest, variantsToApply, vi>>
  /\ UNCHANGED <<policyVars, textVars, cacheVars, projectVars>>

CopyBaseStep_IgnoreMissing ==
  /\ pc = "base"
  /\ log' = Append(log, Event("copy-base", "-", NoPath, "-"))
  /\ IF BaseExists(defects)
     THEN \E source \in {BaseTree(serviceName, Config, defects)} :
             dest' = copyDirectory(source, dest, BaseExclude)
     ELSE dest' = dest
  /\ pc' = StepAfter("base")
  /\ UNCHANGED <<serviceName, variantChoices, defects, variantsToApply, vi, error>>
  /\ UNCHANGED <<policyVars, textVars, cacheVars, projectVars>>

\* lines 42-48: copy the base template; readdir of a missing base path throws
CopyBaseStep ==
  /\ pc = "base"
  /\ log' = Append(log, Event("copy-base", "-", NoPath, "-"))
  /\ IF BaseExists(defects)
     THEN /\ \E source \in {BaseTree(serviceName, Config, defects)} :
                dest' = copyDirectory(source, dest, BaseExclude)
          /\ pc' = StepAfter("base")
          /\ error' = error
     ELSE /\ dest' = dest
          /\ Throw("ENOENT: no such file or directory, scandir")
  /\ UNCHANGED <<serviceName, variantChoices, defects, variantsToApply, vi>>
  /\ UNCHANGED <<policyVars, textVars, cacheVars, projectVars>>

\* lines 50-57: compute the variants to apply
ResolveStep ==
  /\ pc = "resolve"
  /\ variantsToApply' = getVariantsToApply(variantChoices)
  /\ vi' = 1
  /\ log' = Append(log, Event(IF variantsToApply' = << >> THEN "base-only" ELSE "applying-variants",
                              "-", NoPath, "-"))
  /\ pc' = LoopOrAfter(variantsToApply', 1)
  /\ UNCHANGED <<serviceName, variantChoices, defects, dest, error>>
  /\ UNCHANGED <<policyVars, textVars, cacheVars, projectVars>>

SkipVariantStep_Throw ==
  /\ pc = "loop"
  /\ ~ VariantDefined(Config, CurrentVariant)
  /\ log' = Append(log, Event("skip-variant", CurrentVariant, NoPath, "-"))
  /\ Throw("No configuration found for variant")
  /\ UNCHANGED <<serviceName, variantChoices, defects, dest, variantsToApply, vi>>
  /\ UNCHANGED <<policyVars, textVars, cacheVars, projectVars>>

\* lines 61-66: a variant the service does not define is skipped
SkipVariantStep ==
  /\ pc = "loop"
  /\ ~ VariantDefined(Config, CurrentVariant)
  /\ log' = Append(log, Event("skip-variant", CurrentVariant, NoPath, "-"))
  /\ vi' = vi + 1
  /\ pc' = LoopOrAfter(variantsToApply, vi + 1)
  /\ UNCHANGED <<serviceName, variantChoices, defects, dest, variantsToApply, error>>
  /\ UNCHANGED <<policyVars, textVars, cacheVars, projectVars>>

\* lines 68-77: copy the variant's files
CopyVariantFilesStep ==
  /\ pc = "loop"
  /\ VariantDefined(Config, CurrentVariant)
  /\ \E src \in {VariantFilesTree(Config, CurrentVariant, defects)} :
     \E st \in {copyVariantFiles(CurrentVariant, Config.variants[CurrentVariant].files, src,
                                  Logged(State, "applying", CurrentVariant, NoPath, "-"))} :
        /\ dest' = st.tree
        /\ log' = st.log
        /\ IF st.thrown
           THEN Throw("copyVariantFiles")
           ELSE pc' = "sections" /\ error' = error
  /\ UNCHANGED <<serviceName, variantChoices, defects, variantsToApply, vi>>
  /\ UNCHANGED <<policyVars, textVars, cacheVars, projectVars>>

\* lines 79-87: insert the variant's sections, then go round the loop
InsertVariantSectionsStep ==
  /\ pc = "sections"
  /\ \E st \in {insertVariantSections(CurrentVariant, Config.variants[CurrentVariant].sections,
                                       defects, State)} :
        /\ dest' = st.tree
        /\ log' = st.log
        /\ IF st.thrown
           THEN Throw("insertVariantSections") /\ vi' = vi
           ELSE /\ vi' = vi + 1
                /\ pc' = LoopOrAfter(variantsToApply, vi + 1)
                /\ error' = error
  /\ UNCHANGED <<serviceName, variantChoices, defects, variantsToApply>>
  /\ UNCHANGED <<policyVars, textVars, cacheVars, projectVars>>

\* lines 89-91: strip the markers of the variants that were not applied
CleanupStep ==
  /\ pc = "cleanup"
  /\ \E st \in {cleanupSectionMarkers(Config, variantsToApply,
                                       Logged(State, "cleanup", "-", NoPath, "-"))} :
        /\ dest' = st.tree
        /\ log' = st.log
  /\ pc' = StepAfter("cleanup")
  /\ UNCHANGED <<serviceName, variantChoices, defects, variantsToApply, vi, error>>
  /\ UNCHANGED <<policyVars, textVars, cacheVars, projectVars>>

\* lines 93-97: substitute the placeholders in the whole destination tree
ReplaceVariablesStep ==
  /\ pc = "subst"
  /\ dest' = replaceVariables(dest, Replacements)
  /\ log' = Append(log, Event("replace-variables", "-", NoPath, "-"))
  /\ pc' = StepAfter("subst")
  /\ UNCHANGED <<serviceName, variantChoices, defects, variantsToApply, vi, error>>
  /\ UNCHANGED <<policyVars, textVars, cacheVars, projectVars>>

----------------------------------------------------------------------------
(* Inputs *)

Services == {"backend", "admin-portal", "customers-portal", "infrastructure", "website"}

AxisObjects(key, values) == {EmptyObject} \cup {Put(EmptyObject, key, v) : v \in values}

\* objects with any subset of the two axes set
ChoiceObjects(tenancies, userModels) ==
  {Overwrite(a, b) : a \in AxisObjects("tenancy", tenancies),
                     b \in AxisObjects("userModel", userModels)}

\* what validateVariantChoices accepts
ValidChoices == ChoiceObjects({"multi-tenant", "single-tenant"}, {"b2b", "b2b2c"})

\* recognised, unrecognised, empty and undefined axis values
AnyChoices ==
  ChoiceObjects({"multi-tenant", "single-tenant", "hybrid", "", Undefined},
                {"b2b", "b2b2c", "b2c", "", Undefined})

PolicyIdle ==
  /\ backendChoices = EmptyObject
  /\ policyOut = NotCalled
  /\ resolveOut = NotCalled

ComposeIdle ==
  /\ serviceName = "backend"
  /\ variantChoices = EmptyObject
  /\ defects = {}
  /\ dest = EmptyTree
  /\ variantsToApply = << >>
  /\ vi = 0
  /\ pc = "idle"
  /\ log = << >>
  /\ error = NoError

\* no call made yet on the file
NoFileCall ==
  [op |-> "none", name |-> "", arg |-> << >>, before |-> << >>, thrown |-> << >>, value |-> FALSE,
   prev |-> [op |-> "none", name |-> "", arg |-> << >>, before |-> << >>, thrown |-> << >>,
             value |-> FALSE]]

\* what a call record keeps of the call made before it
Earlier(call) ==
  [op |-> call.op, name |-> call.name, arg |-> call.arg, before |-> call.before,
   thrown |-> call.thrown, value |-> call.value]

TextIdle ==
  /\ filePath = NoPath
  /\ fileContent = << >>
  /\ fileCall = NoFileCall
  /\ fileCalls = 0

\* no cache operation made yet
NoCacheCall ==
  [op |-> "none", arg |-> {}, failing |-> {}, existed |-> FALSE, before |-> {},
   thrown |-> << >>, ran |-> << >>, path |-> Undefined,
   info |-> [exists |-> FALSE, services |-> {}],
   prev |-> [op |-> "none", arg |-> {}, existed |-> FALSE, before |-> {}, thrown |-> << >>]]

\* no process is inside ensureCacheReady
NoProcs == << >>

\* destinationRoot/.launchframe does not exist
NoManifest == [absent |-> TRUE]

\* no manifest command run yet
NoManifestOp == [op |-> "none", name |-> ""]

ProjectIdle ==
  /\ templateTree = {}
  /\ genChoices = EmptyObject
  /\ required = << >>
  /\ genFault = "none"
  /\ genAt = "idle"
  /\ psvCalls = << >>
  /\ destinationRoot = {}
  /\ manifest = NoManifest
  /\ manifestBefore = NoManifest
  /\ manifestOp = NoManifestOp
  /\ manifestOps = 0

CacheIdle ==
  /\ gitDir = FALSE
  /\ sparseList = {}
  /\ cacheCall = NoCacheCall
  /\ cacheCalls = 0
  /\ procs = NoProcs
  /\ gitLog = << >>

----------------------------------------------------------------------------
(* Spec: one processServiceVariant run on an empty destination *)

Init ==
  /\ serviceName \in Services
  /\ variantChoices \in ValidChoices
  /\ defects \in SubsetsUpTo(DefectsOf(serviceName), MaxDefects)
  /\ dest = EmptyTree
  /\ variantsToApply = << >>
  /\ vi = 0
  /\ pc = "config"
  /\ log = << >>
  /\ error = NoError
  /\ PolicyIdle
  /\ TextIdle
  /\ CacheIdle
  /\ ProjectIdle

Next ==
  \/ GetConfigStep
  \/ CopyBaseStep
  \/ ResolveStep
  \/ SkipVariantStep
  \/ CopyVariantFilesStep
  \/ InsertVariantSectionsStep
  \/ CleanupStep
  \/ ReplaceVariablesStep

Spec == Init /\ [][Next]_vars

\* the run is a single synchronous chain of awaits: it keeps going until it returns or throws
FairSpec == Spec /\ WF_vars(Next)

----------------------------------------------------------------------------
(* SpecPolicy: the two policy functions called on arbitrary choice objects *)

CallGetVariantsToApply ==
  /\ ~ policyOut.called
  /\ policyOut' = Returned(getVariantsToApply(backendChoices))
  /\ UNCHANGED <<backendChoices, resolveOut>>
  /\ UNCHANGED <<composeVars, textVars, cacheVars, projectVars>>

\* choices.backend is the argument object itself, so the caller's object is
\* whatever the returned map holds under "backend"
CallResolveVariantChoices ==
  /\ ~ resolveOut.called
  /\ resolveOut' = Returned(resolveVariantChoices(backendChoices))
  /\ backendChoices' = resolveOut'.value["backend"]
  /\ UNCHANGED policyOut
  /\ UNCHANGED <<composeVars, textVars, cacheVars, projectVars>>

PolicyInit ==
  /\ backendChoices \in AnyChoices
  /\ policyOut = NotCalled
  /\ resolveOut = NotCalled
  /\ ComposeIdle
  /\ TextIdle
  /\ CacheIdle
  /\ ProjectIdle

PolicyNext ==
  \/ CallGetVariantsToApply
  \/ CallResolveVariantChoices

SpecPolicy == PolicyInit /\ [][PolicyNext]_vars

----------------------------------------------------------------------------
(* Properties of the policy functions (SpecPolicy) *)

FullChoices(tenancy, userModel) == [tenancy |-> tenancy, userModel |-> userModel]

\* the axis is missing: the property is absent, undefined or empty
NoAxis(value) == value = Undefined \/ value = ""

\* the resolution table of section 4.2, rules (1)-(5), and [] for everything else
RuleTable(tenancy, userModel) ==
  CASE tenancy = "multi-tenant" /\ userModel = "b2b2c" -> <<"multi-tenant", "b2b2c", "b2b2c_multi-tenant">>
    [] tenancy = "single-tenant" /\ userModel = "b2b2c" -> <<"b2b2c", "b2b2c_single-tenant">>
    [] tenancy = "multi-tenant" /\ (userModel = "b2b" \/ NoAxis(userModel)) -> <<"multi-tenant">>
    [] tenancy = "single-tenant" /\ NoAxis(userModel) -> <<"single-tenant">>
    [] OTHER -> << >>

\* C1: getVariantsToApply returns, for every choice object, exactly the ordered list of
\* the resolution table: the five listed cases, and the empty list for every other
\* input (missing or unrecognised axis values).
C1_VariantsToApplyTable ==
  policyOut.called =>
    policyOut.value = RuleTable(Get(backendChoices, "tenancy"), Get(backendChoices, "userModel"))

\* C1 witness: the call was made for multi-tenant + b2b2c and returned the three variants
C1_Witness ==
  /\ policyOut.called
  /\ backendChoices = FullChoices("multi-tenant", "b2b2c")
  /\ policyOut.value = <<"multi-tenant", "b2b2c", "b2b2c_multi-tenant">>

\* what resolveVariantChoices returns for the services other than infrastructure, as C6 states it
ResolvedAsClaimed(r, bc) ==
  /\ DOMAIN r = {"backend", "admin-portal", "customers-portal", "infrastructure"}
  /\ r["backend"] = bc
  /\ r["admin-portal"] = FullChoices(Get(bc, "tenancy"), Get(bc, "userModel"))
  /\ r["customers-portal"] = [tenancy |-> Get(bc, "tenancy")]

\* C6 as stated: backend gets the full ChoiceSet, admin-portal both axes, customers-portal
\* tenancy only and infrastructure userModel only.
C6_Original ==
  resolveOut.called =>
    /\ ResolvedAsClaimed(resolveOut.value, backendChoices)
    /\ resolveOut.value["infrastructure"] = [userModel |-> Get(backendChoices, "userModel")]

\* C6 amended: backend gets the full ChoiceSet, admin-portal and infrastructure both get
\* tenancy and userModel, customers-portal gets tenancy only and nothing else; the
\* caller's ChoiceSet object is never changed.
C6_Amended ==
  /\ [](resolveOut.called =>
          /\ ResolvedAsClaimed(resolveOut.value, backendChoices)
          /\ resolveOut.value["infrastructure"] =
               FullChoices(Get(backendChoices, "tenancy"), Get(backendChoices, "userModel")))
  /\ [][backendChoices' = backendChoices]_vars

\* C6 witness: resolveVariantChoices returned for multi-tenant + b2b2c
C6_Witness ==
  /\ resolveOut.called
  /\ backendChoices = FullChoices("multi-tenant", "b2b2c")
  /\ "tenancy" \in DOMAIN resolveOut.value["infrastructure"]

----------------------------------------------------------------------------
(* Properties of one processServiceVariant run (Spec, FairSpec) *)

Done == pc = "done"

LogHas(ev) == \E i \in 1..Len(log) : log[i].ev = ev

FileEvents == {"applying", "no-files", "copied", "source-not-found"}

SectionEvents ==
  {"no-sections", "target-not-found", "section-file-not-found", "inserted", "could-not-insert"}

CleanupEvents == {"cleanup", "nothing-to-clean", "cleaned"}

\* the step an event was logged by: 0 lookup, 1 base copy, 2 resolution, 3 variant
\* application, 4 cleanup, 5 substitution
Phase(e) ==
  CASE e.ev = "processing" -> 0
    [] e.ev = "copy-base" -> 1
    [] e.ev \in {"base-only", "applying-variants"} -> 2
    [] e.ev \in FileEvents \cup SectionEvents \cup {"skip-variant"} -> 3
    [] e.ev \in CleanupEvents -> 4
    [] e.ev = "replace-variables" -> 5

\* within variant application: the variant's position in variantsToApply, files before sections
Slot(e) ==
  IF Phase(e) = 3 /\ Includes(variantsToApply, e.variant)
  THEN 2 * (CHOOSE k \in 1..Len(variantsToApply) : variantsToApply[k] = e.variant)
       + (IF e.ev \in SectionEvents THEN 1 ELSE 0)
  ELSE 0

\* the variants the loop has started on, in the order it met them
RECURSIVE VisitedIn(_)
VisitedIn(events) ==
  IF events = << >> THEN << >>
  ELSE (IF Head(events).ev \in {"applying", "skip-variant"} THEN <<Head(events).variant>> ELSE << >>)
       \o VisitedIn(Tail(events))

\* a {{PROJECT_NAME}} token that is not preceded by $
HasBareToken(content) ==
  \E i \in 1..Len(content) :
     content[i] = ProjectNameToken /\ (i = 1 \/ content[i - 1] # DOLLAR)

\* the file was copied from a variant's files or had a section injected
WrittenByVariant(path) ==
  \E i \in 1..Len(log) :
     \/ log[i].ev = "copied" /\ PathUnder(path, log[i].path)
     \/ log[i].ev = "inserted" /\ log[i].path = path

\* C2: the steps of one run are strictly ordered - base copy, then the variants in the
\* order getVariantsToApply returned them, each variant's file copies before its section
\* injections, then cleanup, then placeholder substitution - and so no bare placeholder
\* token is left in a file that a variant copied or injected into.
C2_StepsOrdered ==
  /\ \A i, j \in 1..Len(log) :
       i < j => \/ Phase(log[i]) < Phase(log[j])
                \/ Phase(log[i]) = Phase(log[j]) /\ Slot(log[i]) <= Slot(log[j])
  /\ pc \in {"config", "base"} => dest = EmptyTree
  /\ Len(VisitedIn(log)) <= Len(variantsToApply)
  /\ VisitedIn(log) = SubSeq(variantsToApply, 1, Len(VisitedIn(log)))
  /\ pc \in {"cleanup", "subst", "done"} => VisitedIn(log) = variantsToApply
  /\ (LogHas("cleanup") \/ LogHas("replace-variables")) => pc \in {"subst", "done"}
  /\ Done => \A p \in DOMAIN dest : WrittenByVariant(p) => ~ HasBareToken(dest[p])

\* C2 witness: a finished run that copied variant files and injected sections, whose
\* placeholder tokens were substituted
C2_Witness ==
  /\ Done
  /\ LogHas("copied")
  /\ LogHas("inserted")
  /\ \E p \in DOMAIN dest : WrittenByVariant(p) /\ Includes(dest[p], "acme")

\* the section names some variant of the service lists
PolicySections(cfg) == UNION {SeqToSet(AllSectionNames(cfg, f)) : f \in TargetFiles(cfg)}

IsMarker(atom, names) ==
  \E name \in names : \E k \in 1..Len(Styles) :
     atom \in {StartMarker(Styles[k], name), EndMarker(Styles[k], name)}

\* a START or END marker line, in any style, for one of the names
HasMarkerLine(content, names) == \E i \in 1..Len(content) : IsMarker(content[i], names)

\* C3: after a completed run, whatever the ChoiceSet and the template content, no
\* destination file holds a START or END marker line (in any comment style) of any
\* section named in the service's policy.
C3_NoMarkerLineRemains ==
  Done => \A p \in DOMAIN dest : ~ HasMarkerLine(dest[p], PolicySections(Config))

\* the variants of variantsToApply that the service defines, in order
RECURSIVE DefinedIn(_, _)
DefinedIn(cfg, names) ==
  IF names = << >> THEN << >>
  ELSE (IF Head(names) \in DOMAIN cfg.variants THEN <<Head(names)>> ELSE << >>)
       \o DefinedIn(cfg, Tail(names))

NoSourceMissing == \A d \in defects : d.kind # "srcMissing"

\* the files found below the entries of the variant's files list
FilesOf(cfg, v) == DOMAIN VariantFilesTree(cfg, v, defects)

\* every file version starts with a line naming the tree it was authored in
VersionOf(content) == content[1]

VersionFrom(v, path) == v \o " " \o Basename(path)

\* the first line of a section-content file of the variant
InjectedBy(v, atom) ==
  \E i \in 1..Len(Config.variants[v].sections) :
     \E n \in 1..Len(Config.variants[v].sections[i][2]) :
        atom = SectionFileContent(v, Basename(Config.variants[v].sections[i][1]) \o "."
                                     \o Config.variants[v].sections[i][2][n])[1]

\* C4: for multi-tenant + b2b2c on a service defining multi-tenant, b2b2c and
\* b2b2c_multi-tenant, with every file source present, the finished destination holds
\* every file of all three files lists, and a path covered by more than one of them
\* holds b2b2c_multi-tenant's version (also a path inside a directory an earlier variant
\* copied).  In every finished run a file holds the version of the last applied variant
\* that lists it, without anything an earlier variant injected into it.
C4_LastCopyWins ==
  (Done /\ NoSourceMissing) =>
    LET applied == DefinedIn(Config, variantsToApply)
        three == {"multi-tenant", "b2b2c", "b2b2c_multi-tenant"}
    IN  /\ (variantChoices = FullChoices("multi-tenant", "b2b2c") /\ three \subseteq DOMAIN Config.variants) =>
              \A v \in three : \A p \in FilesOf(Config, v) :
                 /\ p \in DOMAIN dest
                 /\ Cardinality({w \in three : p \in FilesOf(Config, w)}) > 1 =>
                      VersionOf(dest[p]) = VersionFrom("b2b2c_multi-tenant", p)
                 /\ {w \in three : p \in FilesOf(Config, w)} = {v} =>
                      VersionOf(dest[p]) = VersionFrom(v, p)
        /\ \A k \in 1..Len(applied) : \A p \in FilesOf(Config, applied[k]) :
              (\A m \in (k + 1)..Len(applied) : p \notin FilesOf(Config, applied[m])) =>
                 /\ p \in DOMAIN dest
                 /\ VersionOf(dest[p]) = VersionFrom(applied[k], p)
                 /\ \A h \in 1..(k - 1) : \A i \in 1..Len(dest[p]) :
                       ~ InjectedBy(applied[h], dest[p][i])

\* C4 witness: the finished backend run for multi-tenant + b2b2c on a complete template;
\* projects.module.ts, inside the directory multi-tenant copied, is the combo's version
C4_Witness ==
  /\ Done
  /\ serviceName = "backend"
  /\ variantChoices = FullChoices("multi-tenant", "b2b2c")
  /\ defects = {}
  /\ VersionOf(dest[ProjectsModule]) = VersionFrom("b2b2c_multi-tenant", ProjectsModule)
  /\ VersionOf(dest[ProjectsService]) = VersionFrom("multi-tenant", ProjectsService)

\* content without its marker lines: indentation, marker and line end are removed
RECURSIVE DropMarkerLines(_, _, _)
DropMarkerLines(content, i, names) ==
  IF i > Len(content) THEN << >>
  ELSE LET k == SkipIndent(content, i)
       IN  IF AtLineStart(content, i) /\ k <= Len(content) /\ IsMarker(content[k], names)
           THEN DropMarkerLines(content,
                                IF k + 1 <= Len(content) /\ content[k + 1] = NL THEN k + 2 ELSE k + 1,
                                names)
           ELSE <<content[i]>> \o DropMarkerLines(content, i + 1, names)

\* every START marker of the content has its END marker and the other way round
AllPaired(content, names) ==
  \A name \in names : \A k \in 1..Len(Styles) :
     Includes(content, StartMarker(Styles[k], name)) <=> Includes(content, EndMarker(Styles[k], name))

\* content with the substituted value turned back into the token
Unsubstituted(content) ==
  [i \in 1..Len(content) |-> IF content[i] = "acme" THEN ProjectNameToken ELSE content[i]]

C7_MissingPairAborts ==
  LogHas("could-not-insert") =>
    /\ pc \notin {"cleanup", "subst", "done"}
    /\ ~ LogHas("cleanup")
    /\ ~ LogHas("replace-variables")

\* the run got past the lookup and the base copy
Composing == pc \notin {"config", "base", "failed"}

EventsOf(v) == {i \in 1..Len(log) : log[i].variant = v}

\* the positions of variantsToApply the loop has finished with
Finished == {k \in 1..Len(variantsToApply) : k < vi}

\* C8: a selected variant name the service's policy has no entry for is skipped with a
\* warning and nothing else, never a hard error; every other selected variant is applied,
\* in the order of variantsToApply; and the run completes.
C8_UndefinedVariantSkipped ==
  /\ [](Composing =>
          /\ \A k \in Finished :
                LET v == variantsToApply[k]
                IN  IF VariantDefined(Config, v)
                    THEN \E i \in EventsOf(v) : log[i].ev = "applying"
                    ELSE /\ EventsOf(v) # {}
                         /\ \A i \in EventsOf(v) : log[i].ev = "skip-variant"
          /\ VisitedIn(log) = SubSeq(variantsToApply, 1, Len(VisitedIn(log)))
          /\ Done => /\ Finished = 1..Len(variantsToApply)
                     /\ LogHas("cleanup")
                     /\ LogHas("replace-variables"))
  /\ [](LogHas("skip-variant") => pc # "failed" /\ error = NoError)
  /\ (LogHas("skip-variant") ~> Done)

\* C8 witness: the finished infrastructure run for multi-tenant + b2b2c: multi-tenant has
\* no entry and was skipped, b2b2c came after it and was applied
C8_Witness ==
  /\ Done
  /\ serviceName = "infrastructure"
  /\ variantChoices = FullChoices("multi-tenant", "b2b2c")
  /\ \E i, j \in 1..Len(log) :
        /\ i < j
        /\ log[i] = Event("skip-variant", "multi-tenant", NoPath, "-")
        /\ log[j].ev = "inserted" /\ log[j].variant = "b2b2c"

\* the template tree lacks nothing but file sources, target files or section-content files
OnlyMissingFiles ==
  /\ defects # {}
  /\ \A d \in defects : d.kind \in {"srcMissing", "targetMissing", "secMissing"}

EntryHandled(v, entry) ==
  \E i \in EventsOf(v) : log[i].path = entry /\ log[i].ev \in {"copied", "source-not-found"}

SectionHandled(v, file, name) ==
  \E i \in EventsOf(v) :
     /\ log[i].path = file
     /\ \/ log[i].ev = "target-not-found"
        \/ log[i].section = name
           /\ log[i].ev \in {"inserted", "could-not-insert", "section-file-not-found"}

\* the i-th event reports something that was missing when it was logged
Reported(i) ==
  LET e == log[i]
  IN  \/ e.ev = "source-not-found" /\ Defect("srcMissing", e.variant, e.path, "-") \in defects
      \/ e.ev = "section-file-not-found"
         /\ Defect("secMissing", e.variant, e.path, e.section) \in defects
      \/ /\ e.ev = "target-not-found"
         /\ Defect("targetMissing", "-", e.path, "-") \in defects
         /\ \A j \in 1..(i - 1) : ~ (log[j].ev = "copied" /\ PathUnder(e.path, log[j].path))

\* C9: a missing file source, target file or section-content file never aborts the run:
\* the entry is reported and skipped, every other file entry and every other section of
\* the variant is still processed, and the run completes.
C9_MissingFileSkipped ==
  /\ []((Composing /\ Config # Null) =>
          /\ \A k \in Finished :
                LET v == variantsToApply[k]
                IN  VariantDefined(Config, v) =>
                      /\ \A n \in 1..Len(Config.variants[v].files) :
                            EntryHandled(v, Config.variants[v].files[n])
                      /\ \A n \in 1..Len(Config.variants[v].sections) :
                            \A m \in 1..Len(Config.variants[v].sections[n][2]) :
                               SectionHandled(v, Config.variants[v].sections[n][1],
                                              Config.variants[v].sections[n][2][m])
          /\ \A i \in 1..Len(log) :
                log[i].ev \in {"source-not-found", "section-file-not-found", "target-not-found"}
                   => Reported(i))
  /\ [](OnlyMissingFiles => /\ pc # "failed" /\ error = NoError
                             /\ Done => LogHas("cleanup") /\ LogHas("replace-variables"))
  /\ (OnlyMissingFiles ~> Done)

\* C9 witness: a finished run that reported a missing section-content file and then
\* injected a later section of the same variant
C9_Witness ==
  /\ Done
  /\ OnlyMissingFiles
  /\ \E i, j \in 1..Len(log) :
        /\ i < j
        /\ log[i].ev = "section-file-not-found"
        /\ log[j].ev = "inserted"
        /\ log[j].variant = log[i].variant

\* the service has no policy, or its base directory is missing
NoPolicyOrBase == Config = Null \/ ~ BaseExists(defects)

\* C10: for a service without a policy, or with a missing base directory, the run ends
\* in an error before any variant is applied: nothing is written to the destination, and
\* neither variant application nor cleanup nor substitution takes place.
C10_HardErrors ==
  /\ [](NoPolicyOrBase =>
          /\ pc \in {"config", "base", "failed"}
          /\ dest = EmptyTree
          /\ variantsToApply = << >>
          /\ \A i \in 1..Len(log) : log[i].ev \in {"processing", "copy-base"}
          /\ (pc = "failed" <=> error # NoError)
          /\ (Config = Null => ~ LogHas("copy-base")))
  /\ [](pc = "failed" => NoPolicyOrBase)
  /\ (NoPolicyOrBase ~> pc = "failed")

\* C10 witness: the backend run that failed on its missing base directory, and the run
\* for a service without a policy that failed at the lookup
C10_Witness ==
  /\ pc = "failed"
  /\ error # NoError
  /\ \/ serviceName = "backend" /\ ~ BaseExists(defects)
     \/ Config = Null

----------------------------------------------------------------------------
(* Files the text functions are called on.  A file is an optional first    *)
(* line, one block of lines per comment style, an optional last line, and  *)
(* it ends with or without a newline.                                      *)

\* largest number of calls made on one file
MaxFileCalls == 2

\* the section name of the documentation's example, and two more
SectionNames == <<"CORS_CONFIG", "AUTH_GUARD", "TENANT_SCOPE">>

BodyLine(style) == "body of " \o style

\* the lines one style contributes to a file
Block(style, name, layout) ==
  LET S == StartMarker(style, name)
      E == EndMarker(style, name)
      B == BodyLine(style)
  IN  CASE layout = "none" -> << >>
        [] layout = "start" -> <<S, NL>>
        [] layout = "end" -> <<E, NL>>
        [] layout = "pair" -> <<S, NL, B, NL, E, NL>>
        [] layout = "empty" -> <<S, NL, E, NL>>
        [] layout = "reversed" -> <<E, NL, B, NL, S, NL>>
        [] layout = "indented" -> <<IND, S, NL, IND, B, NL, IND, E, NL>>
        [] layout = "double" -> <<S, NL, B, NL, E, NL, S, NL, B, NL, E, NL>>
        [] layout = "nested" -> <<S, NL, S, NL, B, NL, E, NL, E, NL>>
        [] layout = "unterminated" -> <<S, NL, B, NL, E>>

\* content without its final newline
ChopNewline(content) ==
  IF content # << >> /\ content[Len(content)] = NL
  THEN SubSeq(content, 1, Len(content) - 1) ELSE content

\* the orders in which the three blocks follow each other in a file
BlockOrders == {<<1, 2, 3>>, <<3, 2, 1>>}

\* names[i] and layouts[i] belong to the block of style Styles[i]
FileOf(head, order, names, layouts, tail, finalNewline) ==
  LET blocks == Block(Styles[order[1]], names[order[1]], layouts[order[1]])
                \o Block(Styles[order[2]], names[order[2]], layouts[order[2]])
                \o Block(Styles[order[3]], names[order[3]], layouts[order[3]])
      whole == (IF head THEN <<"first line", NL>> ELSE << >>) \o blocks
               \o (IF tail THEN <<"last line", NL>> ELSE << >>)
  IN  IF finalNewline THEN whole ELSE ChopNewline(whole)

Files(nameLists, layoutSet) ==
  {FileOf(head, order, names, layouts, tail, finalNewline) :
     head \in BOOLEAN, order \in BlockOrders, names \in nameLists,
     layouts \in [1..3 -> layoutSet], tail \in BOOLEAN, finalNewline \in BOOLEAN}

----------------------------------------------------------------------------
(* SpecSection: replaceSection and hasSection called on one file *)

SectionLayouts == {"none", "start", "end", "pair", "reversed", "indented", "double"}

\* files holding markers of one section name in any of the three styles
SectionFiles == Files({<<SectionNames[1], SectionNames[1], SectionNames[1]>>}, SectionLayouts)

\* the newContent arguments: plain lines, and lines that hold a marker themselves
NewContents ==
  {<<"injected", NL>>,
   <<"injected", NL, StartMarker("hash", SectionNames[1]), NL>>}

\* the sectionName arguments: the name the files hold markers of, and a name they do not
AskedNames == {SectionNames[1], SectionNames[2]}

\* the Error of line 106
SectionError(sectionName, path) == <<"Section markers not found", sectionName, path>>

CallReplaceSection ==
  /\ fileCalls < MaxFileCalls
  /\ \E sectionName \in AskedNames, newContent \in NewContents :
       \E r \in {replaceSection(fileContent, sectionName, newContent)} :
          /\ fileContent' = IF r.thrown THEN fileContent ELSE r.content
          /\ fileCall' = [op |-> "replaceSection", name |-> sectionName, arg |-> newContent,
                          before |-> fileContent,
                          thrown |-> IF r.thrown THEN SectionError(sectionName, filePath)
                                     ELSE << >>,
                          value |-> FALSE, prev |-> Earlier(fileCall)]
  /\ fileCalls' = fileCalls + 1
  /\ UNCHANGED filePath
  /\ UNCHANGED <<policyVars, composeVars, cacheVars, projectVars>>

CallHasSection ==
  /\ fileCalls < MaxFileCalls
  /\ \E sectionName \in AskedNames :
       fileCall' = [op |-> "hasSection", name |-> sectionName, arg |-> << >>,
                    before |-> fileContent, thrown |-> << >>,
                    value |-> hasSection(fileContent, sectionName), prev |-> Earlier(fileCall)]
  /\ fileCalls' = fileCalls + 1
  /\ UNCHANGED <<filePath, fileContent>>
  /\ UNCHANGED <<policyVars, composeVars, cacheVars, projectVars>>

SectionInit ==
  /\ filePath = <<"src", "main.ts">>
  /\ fileContent \in SectionFiles
  /\ fileCall = NoFileCall
  /\ fileCalls = 0
  /\ PolicyIdle
  /\ ComposeIdle
  /\ CacheIdle
  /\ ProjectIdle

SectionNext ==
  \/ CallReplaceSection
  \/ CallHasSection

SpecSection == SectionInit /\ [][SectionNext]_vars

----------------------------------------------------------------------------
(* Properties of replaceSection and hasSection (SpecSection) *)

Replaced == fileCall.op = "replaceSection"

\* both markers of the style occur in the content
BothPresent(content, style, name) ==
  /\ Includes(content, StartMarker(style, name))
  /\ Includes(content, EndMarker(style, name))

\* the first style, in the order line, block, hash, whose two markers both occur; 0 if none
FirstCompleteStyle(content, name) ==
  Leftmost({i \in 1..Len(Styles) : BothPresent(content, Styles[i], name)})

\* all text before the line that holds position i
TextBeforeLineOf(content, i) ==
  SubSeq(content, 1, Rightmost({k \in 1..i : content[k] = NL}))

\* all text after the line that holds position i: nothing when that line is the last one
TextAfterLineOf(content, i) ==
  LET ends == {k \in i..Len(content) : content[k] = NL}
  IN  IF ends = {} THEN << >> ELSE SubSeq(content, Leftmost(ends) + 1, Len(content))

\* C11: whenever both markers of a style are present, the file after replaceSection is
\* prefix + newContent + suffix, where prefix is all text before the START marker's line
\* and suffix all text after the END marker's line (empty when that line ends the file
\* without a newline).
C11_SpanReplaced ==
  Replaced /\ FirstCompleteStyle(fileCall.before, fileCall.name) # 0 =>
    LET before == fileCall.before
        style == Styles[FirstCompleteStyle(before, fileCall.name)]
        startIndex == IndexOf(before, StartMarker(style, fileCall.name))
        endIndex == IndexOf(before, EndMarker(style, fileCall.name))
    IN  fileContent = TextBeforeLineOf(before, startIndex) \o fileCall.arg
                      \o TextAfterLineOf(before, endIndex)

\* no style has both of its markers in the content
NoCompleteStyle(content, name) ==
  \A i \in 1..Len(Styles) :
     \/ ~ Includes(content, StartMarker(Styles[i], name))
     \/ ~ Includes(content, EndMarker(Styles[i], name))

\* C12: whenever each of the three styles lacks its START or its END marker,
\* replaceSection throws the error that names the section and the file, and the file is
\* left exactly as it was.
C12_ThrowsWhenNoPair ==
  Replaced /\ NoCompleteStyle(fileCall.before, fileCall.name) =>
    /\ fileCall.thrown = <<"Section markers not found", fileCall.name, filePath>>
    /\ fileContent = fileCall.before

\* C12 witness: a call that threw on a file holding a START marker of one style and an
\* END marker of another, but no complete pair
C12_Witness ==
  /\ Replaced
  /\ fileCall.thrown # << >>
  /\ fileContent = fileCall.before
  /\ Includes(fileContent, StartMarker("slash", fileCall.name))
  /\ ~ Includes(fileContent, EndMarker("slash", fileCall.name))
  /\ Includes(fileContent, EndMarker("jsx", fileCall.name))
  /\ ~ Includes(fileContent, StartMarker("jsx", fileCall.name))

\* C13: when a section's END marker occurs in the file before its START marker,
\* replaceSection throws and the file is left unchanged.
C13_MismatchedPairThrows ==
  Replaced /\ FirstCompleteStyle(fileCall.before, fileCall.name) # 0 =>
    LET before == fileCall.before
        style == Styles[FirstCompleteStyle(before, fileCall.name)]
    IN  IndexOf(before, EndMarker(style, fileCall.name))
          < IndexOf(before, StartMarker(style, fileCall.name))
        => fileCall.thrown # << >> /\ fileContent = before

\* the markers of one style for the section name, in the order they occur in the content
MarkersOf(content, style, name) ==
  SelectSeq(content, LAMBDA atom : atom \in {StartMarker(style, name), EndMarker(style, name)})

IsPrefixOf(p, content) == Len(p) <= Len(content) /\ SubSeq(content, 1, Len(p)) = p

IsSuffixOf(q, content) ==
  Len(q) <= Len(content) /\ SubSeq(content, Len(content) - Len(q) + 1, Len(content)) = q

\* C14: a call that does not throw uses the first style, in the order line, block, hash,
\* that has both markers in the file, passing over a style with only one of them: the new
\* content lands where that style's START marker line began, the span from that line to
\* the end of that style's END marker line is what a well-formed span loses, and the
\* markers of the other styles outside the span stay in the file in their order.
C14_FirstCompleteStyleWins ==
  Replaced /\ fileCall.thrown = << >> =>
    /\ FirstCompleteStyle(fileCall.before, fileCall.name) # 0
    /\ LET before == fileCall.before
           name == fileCall.name
           chosen == Styles[FirstCompleteStyle(before, name)]
           startIndex == IndexOf(before, StartMarker(chosen, name))
           endIndex == IndexOf(before, EndMarker(chosen, name))
           prefix == TextBeforeLineOf(before, startIndex)
           suffix == TextAfterLineOf(before, endIndex)
       IN  /\ IsPrefixOf(prefix \o fileCall.arg, fileContent)
           /\ (startIndex < endIndex /\ IndexOfFrom(before, NL, endIndex) # 0
                 => fileContent = prefix \o fileCall.arg \o suffix)
           /\ \A i \in 1..Len(Styles) :
                Styles[i] # chosen =>
                  /\ IsPrefixOf(MarkersOf(prefix \o fileCall.arg, Styles[i], name),
                                MarkersOf(fileContent, Styles[i], name))
                  /\ IsSuffixOf(MarkersOf(suffix, Styles[i], name),
                                MarkersOf(fileContent, Styles[i], name))

\* C14 witness: the line style had only its START marker and was passed over, the block
\* style's pair was replaced, and the hash style's pair, also complete, is still in the file
C14_Witness ==
  /\ Replaced
  /\ fileCall.thrown = << >>
  /\ Includes(fileCall.before, StartMarker("slash", fileCall.name))
  /\ ~ Includes(fileCall.before, EndMarker("slash", fileCall.name))
  /\ BothPresent(fileCall.before, "jsx", fileCall.name)
  /\ BothPresent(fileCall.before, "hash", fileCall.name)
  /\ IndexOf(fileCall.before, StartMarker("hash", fileCall.name))
       < IndexOf(fileCall.before, StartMarker("jsx", fileCall.name))
  /\ ~ Includes(fileContent, StartMarker("jsx", fileCall.name))
  /\ ~ Includes(fileContent, EndMarker("jsx", fileCall.name))
  /\ BothPresent(fileContent, "hash", fileCall.name)
  /\ Includes(fileContent, StartMarker("slash", fileCall.name))
  /\ Includes(fileContent, "injected")

\* sub occurs in content as a contiguous run
ContainsSeq(content, sub) ==
  \E i \in 0..(Len(content) - Len(sub)) : SubSeq(content, i + 1, i + Len(sub)) = sub

\* C15: when hasSection is probed right after a replaceSection call for the same section
\* that did not throw, it returns false, and the injected content is in the file verbatim.
C15_InjectionRoundTrip ==
  (/\ fileCall.op = "hasSection"
   /\ fileCall.prev.op = "replaceSection"
   /\ fileCall.prev.name = fileCall.name
   /\ fileCall.prev.thrown = << >>)
    => /\ fileCall.value = FALSE
       /\ ContainsSeq(fileContent, fileCall.prev.arg)

\* C29: hasSection and replaceSection agree on what a present section is: a
\* replaceSection call made right after a hasSection call on the same file and section
\* name completes without throwing exactly when that hasSection call returned true.
C29_HasSectionAgrees ==
  (/\ Replaced
   /\ fileCall.prev.op = "hasSection"
   /\ fileCall.prev.name = fileCall.name)
  => (fileCall.thrown = << >> <=> fileCall.prev.value)

\* C29 witness: hasSection returned false on a file that holds a START marker without
\* its END marker, and the replaceSection that followed threw and left the file
C29_Witness ==
  /\ Replaced
  /\ fileCall.prev.op = "hasSection"
  /\ fileCall.prev.name = fileCall.name
  /\ \E style \in SeqToSet(Styles) :
        /\ Includes(fileCall.before, StartMarker(style, fileCall.name))
        /\ ~ Includes(fileCall.before, EndMarker(style, fileCall.name))
  /\ ~ fileCall.prev.value
  /\ fileCall.thrown # << >>
  /\ fileContent = fileCall.before

\* C29 witness of the other side: hasSection returned true and replaceSection wrote
C29_WitnessPresent ==
  /\ Replaced
  /\ fileCall.prev.op = "hasSection"
  /\ fileCall.prev.name = fileCall.name
  /\ fileCall.prev.value
  /\ fileCall.thrown = << >>
  /\ fileContent # fileCall.before

----------------------------------------------------------------------------
(* SpecCleanup: cleanupSectionMarkers called on a destination that holds   *)
(* one file, under a policy whose three variants each list one section of  *)
(* that file.                                                              *)

CleanupLayouts ==
  {"none", "start", "pair", "empty", "indented", "nested", "unterminated", "double"}

\* files holding markers of three section names, the i-th name in the i-th style
CleanupFiles == Files({SectionNames}, CleanupLayouts)

CleanupVariants == <<"multi-tenant", "b2b2c", "b2b2c_multi-tenant">>

\* a serviceConfig: the i-th variant lists the i-th section name for the file
CleanupConfig(path) ==
  [ variantNames |-> CleanupVariants,
    variants |-> [v \in SeqToSet(CleanupVariants) |->
                    [ files |-> << >>,
                      sections |-> << <<path, <<SectionNames[CHOOSE i \in 1..3 : CleanupVariants[i] = v]>> >> >> ]] ]

\* the appliedVariants arguments
AppliedLists == {<< >>, <<"multi-tenant">>, CleanupVariants}

CallCleanupSectionMarkers ==
  /\ fileCalls < MaxFileCalls
  /\ \E appliedVariants \in AppliedLists :
       \E st \in {cleanupSectionMarkers(CleanupConfig(filePath), appliedVariants,
                                        [tree |-> (filePath :> fileContent), log |-> << >>,
                                         thrown |-> FALSE])} :
          /\ fileContent' = st.tree[filePath]
          /\ fileCall' = [op |-> "cleanupSectionMarkers", name |-> "", arg |-> appliedVariants,
                          before |-> fileContent, thrown |-> << >>, value |-> FALSE,
                          prev |-> Earlier(fileCall)]
  /\ fileCalls' = fileCalls + 1
  /\ UNCHANGED filePath
  /\ UNCHANGED <<policyVars, composeVars, cacheVars, projectVars>>

CleanupInit ==
  /\ filePath = <<"src", "main.ts">>
  /\ fileContent \in CleanupFiles
  /\ fileCall = NoFileCall
  /\ fileCalls = 0
  /\ PolicyIdle
  /\ ComposeIdle
  /\ CacheIdle
  /\ ProjectIdle

CleanupNext == CallCleanupSectionMarkers

SpecCleanup == CleanupInit /\ [][CleanupNext]_vars

----------------------------------------------------------------------------
(* Properties of cleanupSectionMarkers (SpecCleanup) *)

Cleaned == fileCall.op = "cleanupSectionMarkers"

\* the section names of the variants that were not applied in the last cleanup call
CleanedNames ==
  {SectionNames[i] : i \in {k \in 1..3 : ~ Includes(fileCall.arg, CleanupVariants[k])}}

Occurrences(content, atom) == Cardinality({i \in 1..Len(content) : content[i] = atom})

LineCount(content) == Cardinality({i \in 1..Len(content) : AtLineStart(content, i)})

\* the marker at position i stands on a line of its own, optionally indented
OwnLine(content, i) ==
  /\ \E k \in 1..i : AtLineStart(content, k) /\ SkipIndent(content, k) = i
  /\ (i = Len(content) \/ content[i + 1] = NL)

\* the content holds, for each i, exactly one START and one END marker of the i-th name
\* in the i-th style, START first, and no marker of these names in another style
OnePairPerStyle(content) ==
  /\ \A i \in 1..3 :
        /\ Occurrences(content, StartMarker(Styles[i], SectionNames[i])) = 1
        /\ Occurrences(content, EndMarker(Styles[i], SectionNames[i])) = 1
        /\ IndexOf(content, StartMarker(Styles[i], SectionNames[i]))
             < IndexOf(content, EndMarker(Styles[i], SectionNames[i]))
  /\ Cardinality({i \in 1..Len(content) : IsMarker(content[i], SeqToSet(SectionNames))}) = 6
  /\ \A i \in 1..Len(content) : IsMarker(content[i], SeqToSet(SectionNames)) => OwnLine(content, i)

\* C16: cleanup removes marker lines and nothing else.  For a file with one marker pair
\* in each of the three comment styles, for three section names of unapplied variants,
\* the result is the file without its six marker lines, six lines shorter, every other
\* line unchanged and in place; a file without markers of the cleaned sections is left
\* as it was.
C16_OnlyMarkerLinesRemoved ==
  Cleaned =>
    /\ (OnePairPerStyle(fileCall.before) /\ fileCall.arg = << >> =>
          /\ fileContent = DropMarkerLines(fileCall.before, 1, SeqToSet(SectionNames))
          /\ LineCount(fileContent) = LineCount(fileCall.before) - 6
          /\ ~ HasMarkerLine(fileContent, SeqToSet(SectionNames))
          /\ \A i \in 1..3 : Occurrences(fileContent, BodyLine(Styles[i]))
                               = Occurrences(fileCall.before, BodyLine(Styles[i])))
    /\ (~ HasMarkerLine(fileCall.before, CleanedNames) => fileContent = fileCall.before)

\* C16 witness: a cleanup with no variant applied, on a file that had text before and
\* after three pairs (one of them indented, all with a body), and lost six lines
C16_Witness ==
  /\ Cleaned
  /\ fileCall.arg = << >>
  /\ OnePairPerStyle(fileCall.before)
  /\ Includes(fileCall.before, IND)
  /\ \A i \in 1..3 : Includes(fileContent, BodyLine(Styles[i]))
  /\ Includes(fileContent, "first line")
  /\ Includes(fileContent, "last line")
  /\ LineCount(fileContent) = LineCount(fileCall.before) - 6
  /\ Len(fileContent) < Len(fileCall.before)

\* every marker of the names is alone on its line and occurs once at most
MarkersWellFormed(content, names) ==
  \A i \in 1..Len(content) :
     IsMarker(content[i], names) =>
       /\ OwnLine(content, i)
       /\ Occurrences(content, content[i]) = 1

\* the last call repeated the cleanupSectionMarkers call made right before it
CleanedTwice ==
  /\ Cleaned
  /\ fileCall.prev.op = "cleanupSectionMarkers"
  /\ fileCall.prev.arg = fileCall.arg

\* C17 as stated: a second cleanupSectionMarkers call with the same arguments leaves
\* the file exactly as the first call left it, whatever the file holds.
C17_CleanupIdempotent ==
  CleanedTwice => fileContent = fileCall.before

\* C17: for a file in which every marker of a cleaned section stands on a line of its
\* own and occurs once at most, a second cleanupSectionMarkers call with the same
\* arguments leaves the file exactly as the first call left it.
C17_Amended ==
  CleanedTwice /\ MarkersWellFormed(fileCall.prev.before, CleanedNames)
    => fileContent = fileCall.before

\* C17 witness: the first call stripped a well-formed file's markers, a lone START
\* marker stayed, and the second call changed nothing
C17_Witness ==
  /\ CleanedTwice
  /\ MarkersWellFormed(fileCall.prev.before, CleanedNames)
  /\ fileCall.before # fileCall.prev.before
  /\ HasMarkerLine(fileCall.prev.before, {SectionNames[2]})
  /\ ~ HasMarkerLine(fileContent, {SectionNames[2]})
  /\ HasMarkerLine(fileContent, {SectionNames[3]})
  /\ SectionNames[3] \in CleanedNames
  /\ fileContent = fileCall.before

\* the content holds two marker pairs of the i-th name in the i-th style, one after the
\* other, every marker on a line of its own
TwoPairs(content, i) ==
  LET S == StartMarker(Styles[i], SectionNames[i])
      E == EndMarker(Styles[i], SectionNames[i])
      at == {k \in 1..Len(content) : content[k] \in {S, E}}
  IN  /\ Occurrences(content, S) = 2
      /\ Occurrences(content, E) = 2
      /\ \A k \in at : OwnLine(content, k)
      /\ \A k \in at : content[k] = (IF Cardinality({j \in at : j < k}) % 2 = 0 THEN S ELSE E)

\* the last call cleaned the i-th section of a file that held two pairs of it
CleanedTwoPairs(i) ==
  /\ Cleaned
  /\ SectionNames[i] \in CleanedNames
  /\ TwoPairs(fileCall.before, i)

\* C28 as stated: for one section name and one comment style a cleanup pass strips the
\* first marker pair only; a second pair of that name and style later in the file is
\* still there after the pass.
C28_FirstPairOnly ==
  \A i \in 1..3 :
     CleanedTwoPairs(i) =>
       /\ Occurrences(fileContent, StartMarker(Styles[i], SectionNames[i])) = 1
       /\ Occurrences(fileContent, EndMarker(Styles[i], SectionNames[i])) = 1

\* C28: for one section name and one comment style a cleanup pass strips every matched
\* marker pair of the file: a second pair of that name and style later in the file is
\* stripped by the same pass, and the lines between the markers stay.
C28_Amended ==
  \A i \in 1..3 :
     CleanedTwoPairs(i) =>
       /\ Occurrences(fileContent, StartMarker(Styles[i], SectionNames[i])) = 0
       /\ Occurrences(fileContent, EndMarker(Styles[i], SectionNames[i])) = 0
       /\ Occurrences(fileContent, BodyLine(Styles[i])) = 2

\* C28 witness: a file with two pairs of the second section in the second style was
\* cleaned, and both bodies are there without any marker of that section
C28_Witness ==
  /\ CleanedTwoPairs(2)
  /\ Occurrences(fileCall.before, BodyLine(Styles[2])) = 2
  /\ Occurrences(fileContent, BodyLine(Styles[2])) = 2
  /\ ~ HasMarkerLine(fileContent, {SectionNames[2]})
  /\ Len(fileContent) < Len(fileCall.before)

----------------------------------------------------------------------------
(* SpecSubst: replaceVariables called on a directory that holds one file *)

\* longest file content, in atoms
MaxAtoms == 3

DescriptionToken == "{{PROJECT_DESCRIPTION}}"

SubstAtoms == {ProjectNameToken, DescriptionToken, DOLLAR, "text"}

RECURSIVE SeqsUpTo(_, _)
SeqsUpTo(S, n) ==
  IF n = 0 THEN {<< >>}
  ELSE LET shorter == SeqsUpTo(S, n - 1)
       IN  shorter \cup {Append(q, a) : q \in {r \in shorter : Len(r) = n - 1}, a \in S}

SubstFiles == SeqsUpTo(SubstAtoms, MaxAtoms)

\* a text file, a binary asset, a file of a dependency directory
SubstPaths == {<<"src", "main.ts">>, <<"public", "logo.png">>, <<"node_modules", "index.js">>}

\* answers.projectName, answers.projectDescription: a plain word, text with $$, text
\* that ends in a dollar sign, text that mentions the other placeholder
NameValues == {<<"acme">>, <<"US", DOLLAR>>}

DescriptionValues == {<<"an app">>, <<DOLLAR, DOLLAR>>, <<DOLLAR, AMP>>, <<"for ", ProjectNameToken>>}

\* the variables objects, as their entries in insertion order
VariableMaps ==
  UNION {{<< <<ProjectNameToken, n>>, <<DescriptionToken, d>> >>,
          << <<DescriptionToken, d>>, <<ProjectNameToken, n>> >>} :
            n \in NameValues, d \in DescriptionValues}

CallReplaceVariables ==
  /\ fileCalls < MaxFileCalls
  /\ \E variables \in VariableMaps :
       \E tree \in {replaceVariables((filePath :> fileContent), variables)} :
          /\ fileContent' = tree[filePath]
          /\ fileCall' = [op |-> "replaceVariables", name |-> "", arg |-> variables,
                          before |-> fileContent, thrown |-> << >>, value |-> FALSE,
                          prev |-> Earlier(fileCall)]
  /\ fileCalls' = fileCalls + 1
  /\ UNCHANGED filePath
  /\ UNCHANGED <<policyVars, composeVars, cacheVars, projectVars>>

SubstInit ==
  /\ filePath \in SubstPaths
  /\ fileContent \in SubstFiles
  /\ fileCall = NoFileCall
  /\ fileCalls = 0
  /\ PolicyIdle
  /\ ComposeIdle
  /\ CacheIdle
  /\ ProjectIdle

SubstNext == CallReplaceVariables

SpecSubst == SubstInit /\ [][SubstNext]_vars

----------------------------------------------------------------------------
(* Properties of placeholder substitution (SpecSubst) *)

SubstitutedCall == fileCall.op = "replaceVariables"

\* the value the map holds for the placeholder; << >> when the placeholder is not a key
ValueOf(variables, placeholder) ==
  IF \E k \in 1..Len(variables) : variables[k][1] = placeholder
  THEN variables[CHOOSE k \in 1..Len(variables) : variables[k][1] = placeholder][2]
  ELSE << >>

IsKey(variables, atom) == \E k \in 1..Len(variables) : variables[k][1] = atom

\* every bare occurrence of a key replaced by the key's value, everything else kept
RECURSIVE ExpectedSubstitution(_, _, _)
ExpectedSubstitution(content, i, variables) ==
  IF i > Len(content) THEN << >>
  ELSE (IF IsKey(variables, content[i]) /\ (i = 1 \/ content[i - 1] # DOLLAR)
        THEN ValueOf(variables, content[i]) ELSE <<content[i]>>)
       \o ExpectedSubstitution(content, i + 1, variables)

\* C18: substitution replaces every bare {{X}} that is a key of the map by the key's
\* value and leaves every ${{X}} as it is, also when both occur in one file; a file with
\* a binary-asset extension or under an excluded directory is never modified.
C18_BareTokensReplaced ==
  SubstitutedCall =>
    IF filePath = <<"src", "main.ts">>
    THEN fileContent = ExpectedSubstitution(fileCall.before, 1, fileCall.arg)
    ELSE fileContent = fileCall.before

\* the entries of a two-entry map in the other order
Swapped(variables) == <<variables[2], variables[1]>>

\* C19: the result of substitution on a file does not depend on the order in which the
\* entries of the placeholder map are processed.
C19_OrderIndependent ==
  SubstitutedCall /\ filePath = <<"src", "main.ts">> =>
    fileContent = replaceVariablesInFile(fileCall.before, Swapped(fileCall.arg))

----------------------------------------------------------------------------
(* utils/service-cache.js and the cache:update command.  The cache is the  *)
(* directory getCacheDir() names; its state is whether it holds a git      *)
(* repository and that repository's sparse-checkout set.  Every git        *)
(* command a call runs either succeeds or fails.                           *)

\* largest number of cache operations in a run
MaxCacheCalls == 3

CacheServices == {"backend", "admin-portal", "infrastructure"}

\* git clone, git sparse-checkout init, git pull, git sparse-checkout list (in
\* expandServices), git sparse-checkout set, git sparse-checkout list (in getCacheInfo)
GitCommands == {"clone", "init", "pull", "list", "set", "info-list"}

\* the commands that fail during one call, if the call gets to run them
FailureSets == {{}} \cup {{c} : c \in GitCommands} \cup {{"list", "set"}}

NetworkError == <<"Cannot connect to GitHub. Please check your internet connection and try again.">>

\* getCachePath()
CachePath == "~/.launchframe/cache/services"

\* what a call leaves and yields: whether the cache repository exists, its
\* sparse-checkout set, the Error thrown (<< >> for none), the git commands run in
\* order, and the path returned (Undefined for none)
CacheOutcome(exists, list, thrown, ran, path) ==
  [gitDir |-> exists, sparseList |-> list, thrown |-> thrown, ran |-> ran, path |-> path]

allServices_RequestedOnly(currentServices, serviceNames) == serviceNames

\* line 118: [...new Set([...currentServices, ...serviceNames])]
allServices(currentServices, serviceNames) == currentServices \cup serviceNames

\* lines 98-131
expandServices(exists, list, serviceNames, failing, ran) ==
  LET currentServices == IF "list" \in failing THEN {} ELSE list
  IN  IF "set" \in failing
      THEN CacheOutcome(exists, list, <<"Failed to expand services">>,
                        ran \o <<"list", "set">>, Undefined)
      ELSE CacheOutcome(exists, allServices(currentServices, serviceNames), << >>,
                        ran \o <<"list", "set">>, Undefined)

initializeCache_KeepPartial(failing) ==
  IF "clone" \in failing
  THEN CacheOutcome(FALSE, {}, <<"Failed to initialize cache">>, <<"clone">>, Undefined)
  ELSE IF "init" \in failing
       THEN CacheOutcome(TRUE, {}, <<"Failed to initialize cache">>, <<"clone", "init">>,
                         Undefined)
       ELSE CacheOutcome(TRUE, {}, << >>, <<"clone", "init">>, Undefined)

\* lines 38-67: a failed clone or init removes the cache directory
initializeCache(failing) ==
  IF "clone" \in failing
  THEN CacheOutcome(FALSE, {}, <<"Failed to initialize cache">>, <<"clone">>, Undefined)
  ELSE IF "init" \in failing
       THEN CacheOutcome(FALSE, {}, <<"Failed to initialize cache">>, <<"clone", "init">>,
                         Undefined)
       ELSE CacheOutcome(TRUE, {}, << >>, <<"clone", "init">>, Undefined)

\* lines 75-91
updateCache(exists, list, failing) ==
  IF "pull" \in failing
  THEN CacheOutcome(exists, list, <<"Failed to update cache">>, <<"pull">>, Undefined)
  ELSE CacheOutcome(exists, list, << >>, <<"pull">>, Undefined)

ensureCacheReady_IgnorePullFailure(exists, list, requiredServices, failing, network) ==
  LET ready == IF ~ exists THEN initializeCache(failing) ELSE updateCache(exists, list, failing)
      expanded == IF ready.thrown # << >> /\ ~ exists THEN ready
                  ELSE expandServices(ready.gitDir, ready.sparseList, requiredServices,
                                      failing, ready.ran)
  IN  IF expanded.thrown # << >>
      THEN (IF network THEN [expanded EXCEPT !.thrown = NetworkError] ELSE expanded)
      ELSE [expanded EXCEPT !.path = CachePath]

\* lines 238-261; network tells whether the message of a thrown error mentions
\* 'Connection' or 'timed out'
ensureCacheReady(exists, list, requiredServices, failing, network) ==
  LET ready == IF ~ exists THEN initializeCache(failing) ELSE updateCache(exists, list, failing)
      expanded == IF ready.thrown # << >> THEN ready
                  ELSE expandServices(ready.gitDir, ready.sparseList, requiredServices,
                                      failing, ready.ran)
  IN  IF expanded.thrown # << >>
      THEN (IF network THEN [expanded EXCEPT !.thrown = NetworkError] ELSE expanded)
      ELSE [expanded EXCEPT !.path = CachePath]

\* lines 171-231: exists, and the services of the sparse-checkout list ([] when the
\* list command fails)
getCacheInfo(exists, list, failing) ==
  IF ~ exists THEN [exists |-> FALSE, services |-> {}]
  ELSE [exists |-> TRUE, services |-> IF "info-list" \in failing THEN {} ELSE list]

\* commands/cache.js cacheUpdate: nothing is done unless getCacheInfo lists services
cacheUpdate(exists, list, failing, network) ==
  LET currentServices == getCacheInfo(exists, list, failing).services
  IN  IF currentServices = {}
      THEN CacheOutcome(exists, list, << >>,
                        IF exists THEN <<"info-list">> ELSE << >>, Undefined)
      ELSE [ensureCacheReady(exists, list, currentServices, failing, network)
              EXCEPT !.ran = <<"info-list">> \o @, !.path = Undefined]

\* what a call record keeps of the call made before it
EarlierCacheCall(call) ==
  [op |-> call.op, arg |-> call.arg, existed |-> call.existed, before |-> call.before,
   thrown |-> call.thrown]

CacheCalled(op, arg, failing, out, info) ==
  /\ gitDir' = out.gitDir
  /\ sparseList' = out.sparseList
  /\ cacheCall' = [op |-> op, arg |-> arg, failing |-> failing, existed |-> gitDir,
                   before |-> sparseList, thrown |-> out.thrown, ran |-> out.ran,
                   path |-> out.path, info |-> info, prev |-> EarlierCacheCall(cacheCall)]
  /\ cacheCalls' = cacheCalls + 1
  /\ UNCHANGED <<procs, gitLog>>
  /\ UNCHANGED <<policyVars, composeVars, textVars, projectVars>>

NoInfo == [exists |-> FALSE, services |-> {}]

CallEnsureCacheReady ==
  /\ cacheCalls < MaxCacheCalls
  /\ \E requiredServices \in (SUBSET CacheServices) \ {{}}, failing \in FailureSets,
        network \in BOOLEAN :
       CacheCalled("ensureCacheReady", requiredServices, failing,
                   ensureCacheReady(gitDir, sparseList, requiredServices, failing, network),
                   NoInfo)

CallCacheUpdate ==
  /\ cacheCalls < MaxCacheCalls
  /\ \E failing \in FailureSets, network \in BOOLEAN :
       CacheCalled("cache:update", {}, failing,
                   cacheUpdate(gitDir, sparseList, failing, network), NoInfo)

clearCache_KeepRepository(exists, list) ==
  CacheOutcome(exists, list, << >>, << >>, Undefined)

\* lines 156-165: removes the cache directory when it is there
clearCache(exists, list) ==
  CacheOutcome(FALSE, {}, << >>, << >>, Undefined)

CallClearCache ==
  /\ cacheCalls < MaxCacheCalls
  /\ CacheCalled("clearCache", {}, {}, clearCache(gitDir, sparseList), NoInfo)

CallGetCacheInfo ==
  /\ cacheCalls < MaxCacheCalls
  /\ \E failing \in {{}, {"info-list"}} :
       CacheCalled("getCacheInfo", {}, failing,
                   CacheOutcome(gitDir, sparseList, << >>,
                                IF gitDir THEN <<"info-list">> ELSE << >>, Undefined),
                   getCacheInfo(gitDir, sparseList, failing))

CacheInit ==
  /\ CacheIdle
  /\ ProjectIdle
  /\ PolicyIdle
  /\ ComposeIdle
  /\ TextIdle

CacheNext ==
  \/ CallEnsureCacheReady
  \/ CallCacheUpdate
  \/ CallClearCache
  \/ CallGetCacheInfo

SpecCache == CacheInit /\ [][CacheNext]_vars

----------------------------------------------------------------------------
(* Properties of the cache (SpecCache) *)

\* C20: the sparse-checkout set never shrinks except by clearCache: after every
\* ensureCacheReady and every cache:update call, also one in which a git command
\* failed, the set holds everything it held before the call.
C20_IncludedPathsNeverShrink ==
  cacheCall.op \in {"ensureCacheReady", "cache:update"} => cacheCall.before \subseteq sparseList

\* the git commands of a call's trace
Ran(call) == {call.ran[i] : i \in DOMAIN call.ran}

\* C21: when the clone or the sparse-checkout initialisation fails in an
\* ensureCacheReady on a missing cache, the cache directory does not exist afterwards,
\* the call throws, and neither the listing nor the setting of the sparse-checkout
\* set is run
C21_InitFailureLeavesNoCache ==
  (/\ cacheCall.op = "ensureCacheReady"
   /\ ~ cacheCall.existed
   /\ cacheCall.failing \cap {"clone", "init"} # {})
  => (/\ ~ gitDir
      /\ cacheCall.thrown # << >>
      /\ Ran(cacheCall) \cap {"list", "set"} = {})

C21_Witness ==
  /\ cacheCall.op = "ensureCacheReady"
  /\ ~ cacheCall.existed
  /\ cacheCall.failing = {"init"}
  /\ cacheCall.ran = <<"clone", "init">>
  /\ ~ gitDir
  /\ cacheCall.thrown # << >>

\* C22: an ensureCacheReady on an existing cache runs the pull first and never clones,
\* one on a missing cache runs the clone first and never pulls; when the pull fails the
\* call throws, the sparse-checkout set is the one before the call and no cache path is
\* returned
C22_PullBeforeWiden ==
  cacheCall.op = "ensureCacheReady"
  => (/\ cacheCall.existed => (cacheCall.ran[1] = "pull" /\ "clone" \notin Ran(cacheCall))
      /\ ~ cacheCall.existed => (cacheCall.ran[1] = "clone" /\ "pull" \notin Ran(cacheCall))
      /\ (cacheCall.existed /\ "pull" \in cacheCall.failing)
           => (/\ cacheCall.thrown # << >>
               /\ sparseList = cacheCall.before
               /\ "set" \notin Ran(cacheCall)
               /\ cacheCall.path = Undefined))

C22_Witness ==
  /\ cacheCall.op = "ensureCacheReady"
  /\ cacheCall.existed
  /\ cacheCall.before # {}
  /\ cacheCall.failing = {"pull"}
  /\ cacheCall.ran = <<"pull">>
  /\ cacheCall.thrown # << >>

----------------------------------------------------------------------------
(* SpecConcurrent: two processes run ensureCacheReady on one existing      *)
(* cache.  A step is one file-system probe or one git command; each git    *)
(* command runs atomically and either succeeds or fails.  No step removes  *)
(* the cache, so cacheExists answers true throughout.                      *)

Procs == {1, 2}

Other(p) == 3 - p

\* process p has not entered ensureCacheReady(requiredServices) yet
Entering(requiredServices) ==
  [at |-> "cacheExists", requiredServices |-> requiredServices, currentServices |-> {},
   thrown |-> << >>, path |-> Undefined]

Ran2(p, command, ok) == Append(gitLog, [proc |-> p, command |-> command, ok |-> ok])

\* line 240: if (!(await cacheExists()))
StepCacheExists(p) ==
  /\ procs[p].at = "cacheExists"
  /\ gitDir
  /\ procs' = [procs EXCEPT ![p].at = "pull"]
  /\ UNCHANGED <<gitDir, sparseList, gitLog>>

\* updateCache, line 81: git pull origin main
StepPull(p) ==
  /\ procs[p].at = "pull"
  /\ \E ok \in BOOLEAN :
       /\ gitLog' = Ran2(p, "pull", ok)
       /\ procs' = IF ok THEN [procs EXCEPT ![p].at = "list"]
                   ELSE [procs EXCEPT ![p].at = "thrown",
                                      ![p].thrown = <<"Failed to update cache">>]
  /\ UNCHANGED <<gitDir, sparseList>>

\* expandServices, lines 106-116: git sparse-checkout list; a failure leaves
\* currentServices = []
StepList(p) ==
  /\ procs[p].at = "list"
  /\ \E ok \in BOOLEAN :
       /\ gitLog' = Ran2(p, "list", ok)
       /\ procs' = [procs EXCEPT ![p].at = "set",
                                  ![p].currentServices = IF ok THEN sparseList ELSE {}]
  /\ UNCHANGED <<gitDir, sparseList>>

\* expandServices, lines 118-125, and the return of line 249
StepSet(p) ==
  /\ procs[p].at = "set"
  /\ \E ok \in BOOLEAN :
       /\ gitLog' = Ran2(p, "set", ok)
       /\ sparseList' = IF ok THEN allServices(procs[p].currentServices,
                                               procs[p].requiredServices)
                        ELSE sparseList
       /\ procs' = IF ok THEN [procs EXCEPT ![p].at = "returned", ![p].path = CachePath]
                   ELSE [procs EXCEPT ![p].at = "thrown",
                                      ![p].thrown = <<"Failed to expand services">>]
  /\ UNCHANGED gitDir

ConcurrentInit ==
  /\ gitDir = TRUE
  /\ sparseList \in SUBSET CacheServices
  /\ \E a \in CacheServices :
       \E b \in CacheServices \ {a} : procs = <<Entering({a}), Entering({b})>>
  /\ gitLog = << >>
  /\ cacheCall = NoCacheCall
  /\ cacheCalls = 0
  /\ PolicyIdle
  /\ ComposeIdle
  /\ TextIdle
  /\ ProjectIdle

ConcurrentNext ==
  \E p \in Procs :
     /\ \/ StepCacheExists(p)
        \/ StepPull(p)
        \/ StepList(p)
        \/ StepSet(p)
     /\ UNCHANGED <<cacheCall, cacheCalls>>
     /\ UNCHANGED <<policyVars, composeVars, textVars, projectVars>>

SpecConcurrent == ConcurrentInit /\ [][ConcurrentNext]_vars

----------------------------------------------------------------------------
(* Properties of concurrent ensureCacheReady calls (SpecConcurrent) *)

BothReturned == \A p \in DOMAIN procs : procs[p].at = "returned"

\* position in gitLog of the command process p ran, 0 when it has not run it
RanAt(p, command) ==
  LET at == {i \in DOMAIN gitLog : gitLog[i].proc = p /\ gitLog[i].command = command}
  IN  IF at = {} THEN 0 ELSE CHOOSE i \in at : TRUE

\* the process whose git sparse-checkout set ran last
LastSetter == CHOOSE p \in DOMAIN procs : RanAt(p, "set") > RanAt(Other(p), "set")

\* process p's git sparse-checkout list succeeded, after the other's set had run
ListedAfterSetOf(p) ==
  /\ gitLog[RanAt(p, "list")].ok
  /\ RanAt(p, "list") > RanAt(Other(p), "set")

BothServices == procs[1].requiredServices \cup procs[2].requiredServices

\* every git command run so far succeeded
NoCommandFailed == \A i \in DOMAIN gitLog : gitLog[i].ok

\* C30 as stated: once two concurrent ensureCacheReady calls on one existing cache, one
\* requiring {a} and the other {b}, have both returned successfully, the sparse-checkout
\* set contains both a and b (checked for the runs in which no git command failed).
C30_BothServicesIncluded ==
  BothReturned /\ NoCommandFailed => BothServices \subseteq sparseList

\* C30: once both calls have returned successfully, the sparse-checkout set is what
\* the process whose sparse-checkout set ran last had listed, with its own service
\* added; it contains both a and b when that process's sparse-checkout list succeeded
\* and ran after the other process's sparse-checkout set.
C30_Amended ==
  BothReturned =>
    /\ sparseList = procs[LastSetter].currentServices \cup procs[LastSetter].requiredServices
    /\ ListedAfterSetOf(LastSetter) => BothServices \subseteq sparseList

\* C30 witness: both returned, neither service was in the set at the start, the second
\* process listed after the first had set, and both services are in the set
C30_Witness ==
  /\ procs # NoProcs
  /\ BothReturned
  /\ ListedAfterSetOf(LastSetter)
  /\ procs[Other(LastSetter)].currentServices \cap BothServices = {}
  /\ gitLog[RanAt(Other(LastSetter), "list")].ok
  /\ BothServices \subseteq sparseList

----------------------------------------------------------------------------
(* commands/init.js and generator.js                                       *)
(* SpecProject: one init run, from the choice of the services to the       *)
(* manifest.  processServiceVariant is taken as a whole: it throws when    *)
(* the base path of the service is not in the template tree (the copy of   *)
(* the base template fails) or when an I/O error strikes it, and completes *)
(* otherwise.  initGitRepo swallows its errors and is left out.            *)

\* the answers of the run
Answers == [projectName |-> "acme", projectDisplayName |-> "Acme"]

\* the paths under templateRoot that init and generateProject look at
TemplatePaths ==
  {"backend/base",
   "admin-portal", "admin-portal/templates/base", "admin-portal/base",
   "customers-portal", "customers-portal/templates/base", "customers-portal/base",
   "infrastructure/base", "infrastructure/base/.env.example",
   "website"}

\* a path exists only inside an existing directory
ParentOf ==
  [p \in {"admin-portal/templates/base", "admin-portal/base", "customers-portal/templates/base",
          "customers-portal/base", "infrastructure/base/.env.example"} |->
     CASE p \in {"admin-portal/templates/base", "admin-portal/base"} -> "admin-portal"
       [] p \in {"customers-portal/templates/base", "customers-portal/base"} -> "customers-portal"
       [] OTHER -> "infrastructure/base"]

TemplateTrees ==
  {T \in SUBSET TemplatePaths : \A p \in T \cap DOMAIN ParentOf : ParentOf[p] \in T}

\* variantChoices as init builds it: both axes set
GenChoices == {c \in ValidChoices : DOMAIN c = {"tenancy", "userModel"}}

\* init.js lines 113-117
requiredServicesOf(choices) ==
  <<"backend", "admin-portal", "infrastructure", "website">>
    \o (IF choices["userModel"] = "b2b2c" THEN <<"customers-portal">> ELSE << >>)

installedServicesOf_WithoutCustomersPortal(choices) ==
  <<"backend", "admin-portal", "infrastructure", "website">>

\* generator.js lines 180-183
installedServicesOf(choices) ==
  <<"backend", "admin-portal", "infrastructure", "website">>
    \o (IF choices["userModel"] = "b2b2c" THEN <<"customers-portal">> ELSE << >>)

\* generator.js lines 185-194
markerContent(answers, choices) ==
  [version |-> "0.1.0",
   createdAt |-> "now",
   projectName |-> answers.projectName,
   projectDisplayName |-> answers.projectDisplayName,
   deployConfigured |-> FALSE,
   installedServices |-> installedServicesOf(choices),
   variants |-> choices]

\* project-helpers isLaunchFrameProject, for the directory holding these entries
isLaunchFrameProject(entries) == ".launchframe" \in entries

\* generator.js line 61
allServiceVariants == resolveVariantChoices(genChoices)

\* await processServiceVariant(service, allServiceVariants[service], ...): the call is
\* recorded; with the base path there the service directory is written, fully or in part
CallProcessServiceVariant(service, next) ==
  LET basePath == getVariantConfig(service).base
  IN  /\ psvCalls' = Append(psvCalls, [service |-> service,
                                       choices |-> allServiceVariants[service]])
      /\ destinationRoot' = IF basePath \in templateTree
                            THEN destinationRoot \cup {service} ELSE destinationRoot
      /\ genAt' = IF basePath \notin templateTree \/ genFault = service
                  THEN "psv-thrown" ELSE next

\* lines 76-96 and 101-121: compose when <service>/templates/base exists, else copy the
\* service directory as it is when that exists, else nothing
ComposeOrCopy(service, next) ==
  IF (service \o "/templates/base") \in templateTree
  THEN CallProcessServiceVariant(service, next)
  ELSE /\ destinationRoot' = IF service \in templateTree
                             THEN destinationRoot \cup {service} ELSE destinationRoot
       /\ genAt' = next
       /\ UNCHANGED psvCalls

\* init.js lines 112-132: the required services, then ensureCacheReady, which returns
\* the template root or ends the run
InitCommand ==
  /\ genAt = "init"
  /\ required' = requiredServicesOf(genChoices)
  /\ \E cacheReady \in BOOLEAN : genAt' = IF cacheReady THEN "backend" ELSE "exit"
  /\ UNCHANGED <<psvCalls, destinationRoot, manifest>>

\* generator.js lines 63-72
GenBackend ==
  /\ genAt = "backend"
  /\ CallProcessServiceVariant("backend", "admin-portal")
  /\ UNCHANGED <<required, manifest>>

\* lines 74-96
GenAdminPortal ==
  /\ genAt = "admin-portal"
  /\ ComposeOrCopy("admin-portal", "customers-portal")
  /\ UNCHANGED <<required, manifest>>

\* lines 98-124
GenCustomersPortal ==
  /\ genAt = "customers-portal"
  /\ IF genChoices["userModel"] = "b2b2c"
     THEN ComposeOrCopy("customers-portal", "infrastructure")
     ELSE genAt' = "infrastructure" /\ UNCHANGED <<psvCalls, destinationRoot>>
  /\ UNCHANGED <<required, manifest>>

\* lines 126-135
GenInfrastructure ==
  /\ genAt = "infrastructure"
  /\ CallProcessServiceVariant("infrastructure", "website")
  /\ UNCHANGED <<required, manifest>>

\* lines 137-168: the website is copied (a missing source throws), then the additional
\* files of the package that exist
GenWebsite ==
  /\ genAt = "website"
  /\ IF "website" \in templateTree
     THEN /\ destinationRoot' = destinationRoot \cup {"website", "README.md"}
          /\ genAt' = "env"
     ELSE /\ genAt' = "copy-thrown"
          /\ UNCHANGED destinationRoot
  /\ UNCHANGED <<required, psvCalls, manifest>>

\* lines 170-173: generateEnvFile reads infrastructure/.env.example of the destination
GenEnvFile ==
  /\ genAt = "env"
  /\ IF "infrastructure/base/.env.example" \in templateTree
     THEN /\ destinationRoot' = destinationRoot \cup {"infrastructure/.env"}
          /\ genAt' = "manifest"
     ELSE /\ genAt' = "env-thrown"
          /\ UNCHANGED destinationRoot
  /\ UNCHANGED <<required, psvCalls, manifest>>

\* lines 175-195
GenManifest ==
  /\ genAt = "manifest"
  /\ manifest' = markerContent(Answers, genChoices)
  /\ destinationRoot' = destinationRoot \cup {".launchframe"}
  /\ genAt' = "done"
  /\ UNCHANGED <<required, psvCalls>>

\* a project generated earlier under the same name
EarlierChoices == [tenancy |-> "single-tenant", userModel |-> "b2b"]

EarlierProject ==
  {"backend", "admin-portal", "infrastructure", "website", "infrastructure/.env", ".launchframe"}

ProjectInit ==
  /\ templateTree \in TemplateTrees
  /\ genChoices \in GenChoices
  /\ genFault \in {"none"} \cup SeqToSet(ConfiguredServices)
  /\ genAt = "init"
  /\ required = << >>
  /\ psvCalls = << >>
  /\ \E existing \in BOOLEAN :
       /\ destinationRoot = IF existing THEN EarlierProject ELSE {}
       /\ manifest = IF existing THEN markerContent(Answers, EarlierChoices) ELSE NoManifest
  /\ manifestBefore = NoManifest
  /\ manifestOp = NoManifestOp
  /\ manifestOps = 0
  /\ PolicyIdle
  /\ ComposeIdle
  /\ TextIdle
  /\ CacheIdle

ProjectNext ==
  /\ \/ InitCommand
     \/ GenBackend
     \/ GenAdminPortal
     \/ GenCustomersPortal
     \/ GenInfrastructure
     \/ GenWebsite
     \/ GenEnvFile
     \/ GenManifest
  /\ UNCHANGED <<templateTree, genChoices, genFault, manifestBefore, manifestOp, manifestOps>>
  /\ UNCHANGED <<policyVars, composeVars, textVars, cacheVars>>

SpecProject == ProjectInit /\ [][ProjectNext]_vars

----------------------------------------------------------------------------
(* Properties of init and generateProject (SpecProject) *)

\* the processServiceVariant calls made for the service
CallsFor(service) == {i \in DOMAIN psvCalls : psvCalls[i].service = service}

Recorded == SeqToSet(manifest.installedServices)

\* C24: when generateProject has finished, it has called processServiceVariant exactly
\* once for every service that the manifest records as installed and that has a variant
\* policy, with the choices resolveVariantChoices gives that service.
C24_ComposedOncePerService ==
  genAt = "done" =>
    \A service \in Recorded \cap DOMAIN VARIANT_CONFIG :
       /\ Cardinality(CallsFor(service)) = 1
       /\ \A i \in CallsFor(service) :
             psvCalls[i].choices = resolveVariantChoices(genChoices)[service]

\* C25: the manifest of a finished generateProject lists backend, admin-portal,
\* infrastructure, website, then customers-portal exactly when userModel is b2b2c; its
\* deployConfigured is false, its variants are the input choices, and its services are
\* the services init required from the cache.
C25_ManifestContents ==
  genAt = "done" =>
    /\ SubSeq(manifest.installedServices, 1, 4)
         = <<"backend", "admin-portal", "infrastructure", "website">>
    /\ (genChoices["userModel"] = "b2b2c"
          => manifest.installedServices[Len(manifest.installedServices)] = "customers-portal")
    /\ Len(manifest.installedServices) = (IF genChoices["userModel"] = "b2b2c" THEN 5 ELSE 4)
    /\ manifest.deployConfigured = FALSE
    /\ manifest.variants = genChoices
    /\ Recorded = SeqToSet(required)

C25_Witness ==
  /\ genAt = "done"
  /\ genChoices["userModel"] = "b2b2c"
  /\ genChoices["tenancy"] = "multi-tenant"
  /\ Len(manifest.installedServices) = 5
  /\ manifest.variants = genChoices

\* C26: whenever a processServiceVariant call of the run has thrown, the destination
\* holds no manifest and is not recognised as a generated project.
C26_NoManifestAfterThrow ==
  genAt = "psv-thrown" => (manifest = NoManifest /\ ~ isLaunchFrameProject(destinationRoot))

----------------------------------------------------------------------------
(* commands/service.js, utils/project-helpers.js, commands/deploy-configure.js *)
(* SpecManifest: the commands that write the manifest, run one after the   *)
(* other in a project that init generated.                                 *)

MaxManifestOps == 3

\* the names the commands are given: two further services, and two that init may
\* have installed
ManifestServices == {"waitlist", "docs", "customers-portal", "backend"}

\* config.installedServices || []
InstalledOf(config) ==
  IF "installedServices" \in DOMAIN config THEN config["installedServices"] ELSE << >>

addInstalledComponent_NoCheck(config, componentName) ==
  Put(config, "installedServices", Append(InstalledOf(config), componentName))

\* project-helpers lines 66-75: the config that is in the file afterwards
addInstalledComponent(config, componentName) ==
  IF Includes(InstalledOf(config), componentName)
  THEN config
  ELSE Put(config, "installedServices", Append(InstalledOf(config), componentName))

\* service.js lines 13-192: [config, entries] afterwards.  registered: the name is in
\* SERVICE_REGISTRY; confirmed: the prompt's answer; copied: the service files were
\* fetched and copied; configured: steps 4 to 7 went through
serviceAdd(config, entries, name, registered, confirmed, copied, configured) ==
  IF \/ ~ isLaunchFrameProject(entries)
     \/ ~ registered
     \/ Includes(InstalledOf(config), name)
     \/ ~ confirmed
     \/ name \in entries
     \/ ~ copied
  THEN [config |-> config, entries |-> entries]
  ELSE IF ~ configured
       THEN [config |-> config, entries |-> entries \cup {name}]
       ELSE [config |-> Put(config, "installedServices",
                            Append(InstalledOf(config), name)),
             entries |-> entries \cup {name}]

\* the answers of runDeployPrompts
DeployAnswers == [primaryDomain |-> "acme.dev", githubOrg |-> "acme"]

\* deploy-configure lines 13-168: the config that is in the file afterwards
deployConfigure(config, proceed) ==
  IF config["deployConfigured"] /\ ~ proceed
  THEN config
  ELSE Put(Put(config, "deployConfigured", TRUE), "deployment", DeployAnswers)

ManifestCommand(op, name, config, entries) ==
  /\ manifestOps < MaxManifestOps
  /\ manifest' = config
  /\ destinationRoot' = entries
  /\ manifestBefore' = manifest
  /\ manifestOp' = [op |-> op, name |-> name]
  /\ manifestOps' = manifestOps + 1
  /\ UNCHANGED <<templateTree, genChoices, required, genFault, genAt, psvCalls>>
  /\ UNCHANGED <<policyVars, composeVars, textVars, cacheVars>>

CallServiceAdd ==
  \E name \in ManifestServices, registered \in BOOLEAN, confirmed \in BOOLEAN,
     copied \in BOOLEAN, configured \in BOOLEAN :
     \E r \in {serviceAdd(manifest, destinationRoot, name, registered, confirmed,
                          copied, configured)} :
        ManifestCommand("service:add", name, r.config, r.entries)

CallAddInstalledComponent ==
  \E componentName \in ManifestServices :
     ManifestCommand("addInstalledComponent", componentName,
                     addInstalledComponent(manifest, componentName), destinationRoot)

CallDeployConfigure ==
  \E proceed \in BOOLEAN :
     ManifestCommand("deploy:configure", "", deployConfigure(manifest, proceed),
                     destinationRoot)

\* the project as a finished init left it
ManifestInit ==
  /\ genChoices \in GenChoices
  /\ manifest = markerContent(Answers, genChoices)
  /\ destinationRoot = SeqToSet(installedServicesOf(genChoices))
                         \cup {"README.md", "infrastructure/.env", ".launchframe"}
  /\ required = requiredServicesOf(genChoices)
  /\ templateTree = {}
  /\ genFault = "none"
  /\ genAt = "done"
  /\ psvCalls = << >>
  /\ manifestBefore = NoManifest
  /\ manifestOp = NoManifestOp
  /\ manifestOps = 0
  /\ PolicyIdle
  /\ ComposeIdle
  /\ TextIdle
  /\ CacheIdle

ManifestNext ==
  \/ CallServiceAdd
  \/ CallAddInstalledComponent
  \/ CallDeployConfigure

SpecManifest == ManifestInit /\ [][ManifestNext]_vars

----------------------------------------------------------------------------
(* Properties of the manifest commands (SpecManifest) *)

NoDuplicates(list) == \A i, j \in DOMAIN list : list[i] = list[j] => i = j

\* C27: after every manifest command of a sequential run (service:add,
\* addInstalledComponent, deploy:configure) installedServices still holds, in place,
\* every entry it held before the command, and holds no service twice.
C27_InstalledServicesAppendOnly ==
  /\ NoDuplicates(InstalledOf(manifest))
  /\ manifestOp.op # "none" => IsPrefixOf(InstalledOf(manifestBefore), InstalledOf(manifest))

\* C27 witness: three commands were run, two services were added, and the last command
\* was asked to add a service that was installed already and left the list as it was
C27_Witness ==
  /\ manifestOps = 3
  /\ manifestOp.op \in {"service:add", "addInstalledComponent"}
  /\ Includes(InstalledOf(manifestBefore), manifestOp.name)
  /\ manifest = manifestBefore
  /\ Len(InstalledOf(manifest)) = Len(installedServicesOf(genChoices)) + 2

====
